---------------------------- MODULE Spec2Model ----------------------------
(***************************************************************************)
(* Model of the clinic report tool (DepositManagementSystem): the cell     *)
(* coercions, the four upload pipelines (deposit, revenue,                 *)
(* deposit-purchase, cash-in), the deposit window and the totals.          *)
(*                                                                         *)
(* Strings are TLA+ strings, read character by character with Ch.          *)
(* A JavaScript number is modelled by an integer that counts units of      *)
(* 1/128 (Unit): every such value of moderate size is a double, and the    *)
(* sums and differences the program forms on them are exact in binary      *)
(* floating point, so + and - on the counts are the program's + and -.     *)
(* Values off this grid (0.1, or sums beyond 2^53) are outside the model.  *)
(* A Date is its local day number (days since 1970-01-01) or Invalid Date. *)
(***************************************************************************)
EXTENDS Integers, Sequences, FiniteSets, TLC

VARIABLES
    activeTab,              \* useState activeTab: which report's upload input is rendered
    pickedFile,             \* the file the user has at hand (event.target.files[0])
    allDepositRows,         \* useState allDepositRows
    loading,                \* useState loading (deposit)
    error,                  \* useState error (deposit)
    depositStartDate,       \* useState depositStartDate (text of the date input)
    depositReads,           \* FileReader reads in flight started by handleFileUpload
    revenueData, revenueLoading, revenueError, revenueReads,
    depositPurchaseData, depositPurchaseLoading, depositPurchaseError, depositPurchaseReads,
    cashinData, cashinLoading, cashinError, cashinReads,
    lastRows,               \* history: per report, the rows of the upload that published its data
    cell, applied, result   \* a single cell, the coercion last applied to it, and what it gave

vars == <<activeTab, pickedFile, allDepositRows, loading, error, depositStartDate, depositReads,
          revenueData, revenueLoading, revenueError, revenueReads,
          depositPurchaseData, depositPurchaseLoading, depositPurchaseError, depositPurchaseReads,
          cashinData, cashinLoading, cashinError, cashinReads,
          lastRows, cell, applied, result>>

---------------------------------------------------------------------------
(* Bounds of the model *)

\* rows per uploaded sheet
MaxRows == 3
\* rows per uploaded sheet in the row-normalisation specification
MaxNormRows == 2
\* characters of a generated cell text
MaxStrLen == 3
\* file reads in flight per report
MaxReads == 2

---------------------------------------------------------------------------
(* Characters and strings *)

Ch(s, i) == SubSeq(s, i, i)

UpperLetters == "ABCDEFGHIJKLMNOPQRSTUVWXYZ"
LowerLetters == "abcdefghijklmnopqrstuvwxyz"

\* position of the one-character string c in s, 0 when absent
RECURSIVE IndexFrom(_, _, _)
IndexFrom(s, c, i) ==
    IF i > Len(s) THEN 0 ELSE IF Ch(s, i) = c THEN i ELSE IndexFrom(s, c, i + 1)
IndexOf(s, c) == IndexFrom(s, c, 1)

IsDigit(c) == c \in {"0", "1", "2", "3", "4", "5", "6", "7", "8", "9"}
DigitVal(c) == IndexOf("0123456789", c) - 1
IsWhite(c) == c \in {" ", "\t", "\n", "\r"}

RECURSIVE AllDigits(_)
AllDigits(s) == s = "" \/ (IsDigit(Ch(s, 1)) /\ AllDigits(SubSeq(s, 2, Len(s))))

\* String.prototype.toLowerCase
LowerChar(c) ==
    LET i == IndexOf(UpperLetters, c) IN IF i = 0 THEN c ELSE Ch(LowerLetters, i)
RECURSIVE ToLowerCase(_)
ToLowerCase(s) ==
    IF s = "" THEN "" ELSE LowerChar(Ch(s, 1)) \o ToLowerCase(SubSeq(s, 2, Len(s)))

\* String.prototype.trim, as applied by Number() to its argument
RECURSIVE TrimLeft(_)
TrimLeft(s) == IF s # "" /\ IsWhite(Ch(s, 1)) THEN TrimLeft(SubSeq(s, 2, Len(s))) ELSE s
RECURSIVE TrimRight(_)
TrimRight(s) == IF s # "" /\ IsWhite(Ch(s, Len(s))) THEN TrimRight(SubSeq(s, 1, Len(s) - 1)) ELSE s
Trim(s) == TrimRight(TrimLeft(s))

\* s.split(sep) for a one-character separator: the sequence of the parts
RECURSIVE SplitFrom(_, _, _)
SplitFrom(s, sep, cur) ==
    IF s = "" THEN <<cur>>
    ELSE IF Ch(s, 1) = sep THEN <<cur>> \o SplitFrom(SubSeq(s, 2, Len(s)), sep, "")
    ELSE SplitFrom(SubSeq(s, 2, Len(s)), sep, cur \o Ch(s, 1))
Split(s, sep) == SplitFrom(s, sep, "")

\* v.replace(/\D/g, "")
RECURSIVE StripNonDigits(_)
StripNonDigits(s) ==
    IF s = "" THEN ""
    ELSE (IF IsDigit(Ch(s, 1)) THEN Ch(s, 1) ELSE "") \o StripNonDigits(SubSeq(s, 2, Len(s)))

---------------------------------------------------------------------------
(* Numbers *)

\* a number n is the double n / Unit
Unit == 2^7
NumOf(i) == i * Unit
\* ToIntegerOrInfinity: truncation toward zero
Trunc(n) == IF n >= 0 THEN n \div Unit ELSE -((-n) \div Unit)
Abs(n) == IF n < 0 THEN -n ELSE n

\* results of Number(string): a finite number, NaN, or an infinity
Finite(n) == [k |-> "num", v |-> n]
NaN == [k |-> "nan", v |-> 0]
Infinite == [k |-> "inf", v |-> 0]

RECURSIVE Pow10(_)
Pow10(e) == IF e = 0 THEN 1 ELSE 10 * Pow10(e - 1)

\* the integer written by a string of decimal digits
RECURSIVE DecimalValue(_)
DecimalValue(s) ==
    IF s = "" THEN 0 ELSE 10 * DecimalValue(SubSeq(s, 1, Len(s) - 1)) + DigitVal(Ch(s, Len(s)))

\* the longest prefix of decimal digits
RECURSIVE DigitPrefix(_)
DigitPrefix(s) ==
    IF s # "" /\ IsDigit(Ch(s, 1)) THEN Ch(s, 1) \o DigitPrefix(SubSeq(s, 2, Len(s))) ELSE ""

\* mantissa digits m with f of them after the point, times 10^e, in units.
\* Defined when the value lies on the grid (see the module header).
Scaled(m, f, e) ==
    IF m = 0 THEN Finite(0)
    ELSE IF e >= f THEN Finite(m * Pow10(e - f) * Unit)
    ELSE CASE (m * Unit) % Pow10(f - e) = 0 -> Finite((m * Unit) \div Pow10(f - e))

\* StrUnsignedDecimalLiteral: digits [. digits] [e [sign] digits] | . digits [e ...],
\* read from left to right: ip and fp are the digits before and after the point

\* the exponent's digits ed, after its sign
ExponentDigits(sgn, ed, ip, fp) ==
    IF ed = "" \/ ~AllDigits(ed) THEN NaN
    ELSE Scaled(DecimalValue(ip \o fp), Len(fp),
                IF sgn = "-" THEN -DecimalValue(ed) ELSE DecimalValue(ed))

\* r4: what follows the e
ExponentPart(r4, ip, fp) ==
    IF r4 # "" /\ Ch(r4, 1) \in {"+", "-"}
    THEN ExponentDigits(Ch(r4, 1), SubSeq(r4, 2, Len(r4)), ip, fp)
    ELSE ExponentDigits("", r4, ip, fp)

\* r3: what follows the digits
AfterFraction(r3, ip, fp) ==
    IF ip = "" /\ fp = "" THEN NaN
    ELSE IF r3 = "" THEN Scaled(DecimalValue(ip \o fp), Len(fp), 0)
    ELSE IF Ch(r3, 1) \in {"e", "E"} THEN ExponentPart(SubSeq(r3, 2, Len(r3)), ip, fp)
    ELSE NaN

\* r2: what follows the point
FractionPart(r2, ip, fp) == AfterFraction(SubSeq(r2, Len(fp) + 1, Len(r2)), ip, fp)

\* r1: what follows the integer digits ip
AfterInteger(r1, ip) ==
    IF r1 # "" /\ Ch(r1, 1) = "."
    THEN FractionPart(SubSeq(r1, 2, Len(r1)), ip, DigitPrefix(SubSeq(r1, 2, Len(r1))))
    ELSE AfterFraction(r1, ip, "")

IntegerPart(s, ip) == AfterInteger(SubSeq(s, Len(ip) + 1, Len(s)), ip)

UnsignedDecimal(s) == IF s = "Infinity" THEN Infinite ELSE IntegerPart(s, DigitPrefix(s))

\* the integer written by digits of the given radix (hex digits in lower case)
RECURSIVE RadixValue(_, _)
RadixValue(s, radix) ==
    IF s = "" THEN 0
    ELSE radix * RadixValue(SubSeq(s, 1, Len(s) - 1), radix)
         + (IndexOf("0123456789abcdef", Ch(s, Len(s))) - 1)

RECURSIVE IsRadixDigits(_, _)
IsRadixDigits(s, radix) ==
    \/ s = ""
    \/ /\ IndexOf(SubSeq("0123456789abcdef", 1, radix), Ch(s, 1)) # 0
       /\ IsRadixDigits(SubSeq(s, 2, Len(s)), radix)

RadixOf(prefix) ==
    IF prefix = "0x" THEN 16 ELSE IF prefix = "0o" THEN 8 ELSE IF prefix = "0b" THEN 2 ELSE 0

\* NonDecimalIntegerLiteral: 0x.., 0o.., 0b.. (no sign allowed), in lower case
NonDecimal(digits, radix) ==
    IF digits # "" /\ IsRadixDigits(digits, radix)
    THEN Finite(RadixValue(digits, radix) * Unit) ELSE NaN

ApplySign(sgn, r) == IF r.k = "num" /\ sgn = "-" THEN Finite(-r.v) ELSE r

SignedDecimal(t) ==
    IF Ch(t, 1) \in {"+", "-"}
    THEN ApplySign(Ch(t, 1), UnsignedDecimal(SubSeq(t, 2, Len(t))))
    ELSE ApplySign("", UnsignedDecimal(t))

\* t: the text without the white space around it
TrimmedToNumber(t) ==
    IF t = "" THEN Finite(0)
    ELSE IF Len(t) >= 2 /\ RadixOf(ToLowerCase(SubSeq(t, 1, 2))) # 0
    THEN NonDecimal(ToLowerCase(SubSeq(t, 3, Len(t))), RadixOf(ToLowerCase(SubSeq(t, 1, 2))))
    ELSE SignedDecimal(t)

\* Number(s) for a string s (StringToNumber): white space is trimmed, the empty
\* string is 0, a signed decimal literal, an unsigned 0x/0o/0b literal or a signed
\* Infinity is its value, anything else is NaN.
StringToNumber(s) == TrimmedToNumber(Trim(s))

\* Number.isFinite(n) ? n : 0
FiniteOrZero(r) == IF r.k = "num" THEN r.v ELSE 0

\* the decimal digits of a natural number
RECURSIVE NatToString(_)
NatToString(i) ==
    IF i < 10 THEN Ch("0123456789", i + 1)
    ELSE NatToString(i \div 10) \o Ch("0123456789", (i % 10) + 1)

RECURSIVE PadStart(_, _, _)
PadStart(s, len, pad) == IF Len(s) >= len THEN s ELSE PadStart(pad \o s, len, pad)

RECURSIVE TrimZeros(_)
TrimZeros(s) == IF s # "" /\ Ch(s, Len(s)) = "0" THEN TrimZeros(SubSeq(s, 1, Len(s) - 1)) ELSE s

\* String(v) for a number: the shortest decimal text that reads back as v, which
\* for a multiple of 1/128 is its exact decimal expansion (1/128 = 0.0078125)
NumberToString(n) ==
    LET a    == Abs(n)
        frac == TrimZeros(PadStart(NatToString((a % Unit) * 78125), 7, "0"))
    IN (IF n < 0 THEN "-" ELSE "") \o NatToString(a \div Unit)
       \o (IF frac = "" THEN "" ELSE "." \o frac)

---------------------------------------------------------------------------
(* Cells and rows: FullRow = Record<string, unknown> *)

Absent == [k |-> "absent", s |-> "", n |-> 0]     \* undefined: the key is missing
Other == [k |-> "other", s |-> "", n |-> 0]       \* a value that is neither string nor number
Str(s) == [k |-> "string", s |-> s, n |-> 0]
Numb(n) == [k |-> "number", s |-> "", n |-> n]

\* row[key]
Cell(row, key) == IF key \in DOMAIN row THEN row[key] ELSE Absent

---------------------------------------------------------------------------
(* Cell coercion *)

amountFrom_NoStrip(row, key) ==
    LET v == Cell(row, key)
    IN IF v.k = "number" THEN v.n
       ELSE IF v.k = "string" THEN FiniteOrZero(StringToNumber(v.s))
       ELSE 0

amountFrom(row, key) ==
    LET v == Cell(row, key)
        digitsOnly == StripNonDigits(v.s)
    IN IF v.k = "number" THEN v.n
       ELSE IF v.k = "string"
            THEN IF digitsOnly = "" THEN 0 ELSE FiniteOrZero(StringToNumber(digitsOnly))
       ELSE 0

numberFrom(row, key) ==
    LET v == Cell(row, key)
    IN IF v.k = "number" THEN v.n
       ELSE IF v.k = "string" THEN FiniteOrZero(StringToNumber(v.s))
       ELSE 0

stringFrom(row, key) ==
    LET v == Cell(row, key)
    IN IF v.k = "string" THEN v.s
       ELSE IF v.k = "number" THEN NumberToString(v.n)
       ELSE ""

lowerStringFrom(row, key) == ToLowerCase(stringFrom(row, key))

---------------------------------------------------------------------------
(* Dates: a Date object is its local day number, or Invalid Date; null is NullDate *)

DateOf(t) == [k |-> "date", nan |-> FALSE, t |-> t]
InvalidDate == [k |-> "date", nan |-> TRUE, t |-> 0]
NullDate == [k |-> "null", nan |-> FALSE, t |-> 0]
IsValidDate(d) == d.k = "date" /\ ~d.nan

\* days from 1970-01-01 to the first day of month m (1..12) of the year, counted in
\* 400-year eras: yoe is the year of the era (years begin in March), doy the day of
\* that year
DaysOfEra(era, yoe, doy) ==
    era * 146097 + yoe * 365 + yoe \div 4 - yoe \div 100 + doy - 719468

DaysFromMarchYear(yy, m) ==
    DaysOfEra(yy \div 400, yy % 400, (153 * (IF m > 2 THEN m - 3 ELSE m + 9) + 2) \div 5)

\* mn: month index 0..11
DayOfMonthStart(y, mn) == DaysFromMarchYear(IF mn < 2 THEN y - 1 ELSE y, mn + 1)

\* the calendar fields of a day number: getFullYear, getMonth (0..11), getDate
CivilFields(y, m, d) ==
    [year |-> y + (IF m <= 2 THEN 1 ELSE 0), month |-> m - 1, date |-> d]

\* mp: month counted from March (0..11)
CivilOfMonth(era, yoe, doy, mp) ==
    CivilFields(yoe + era * 400, IF mp < 10 THEN mp + 3 ELSE mp - 9,
                doy - (153 * mp + 2) \div 5 + 1)

CivilOfDayOfYear(era, yoe, doy) == CivilOfMonth(era, yoe, doy, (5 * doy + 2) \div 153)

CivilOfYearOfEra(era, doe, yoe) ==
    CivilOfDayOfYear(era, yoe, doe - (365 * yoe + yoe \div 4 - yoe \div 100))

\* doe: day of the era
CivilOfDayOfEra(era, doe) ==
    CivilOfYearOfEra(era, doe,
        (doe - doe \div 1460 + doe \div 36524 - doe \div 146096) \div 365)

\* z: days since 0000-03-01
CivilOfShifted(z) == CivilOfDayOfEra(z \div 146097, z % 146097)

Civil(t) == CivilOfShifted(t + 719468)

\* the largest day number of a Date (TimeClip: 8.64e15 ms)
MaxDay == 100000000

\* TimeClip of a day number
ClipDay(t) == IF t > MaxDay \/ t < -MaxDay THEN InvalidDate ELSE DateOf(t)

\* MakeDay and TimeClip on integer year, month index and day: months and days out of
\* range carry over into the next or previous months and years (a year beyond
\* 400000 is out of a Date's range whatever the day, for the days of this model)
MakeDayOf(ym, mn, dt) ==
    IF ym > 400000 \/ ym < -400000 THEN InvalidDate
    ELSE ClipDay(DayOfMonthStart(ym, mn) + dt - 1)

MakeDate(y, m, dt) == MakeDayOf(y + (m \div 12), m % 12, dt)

\* a year of 0..99 means 1900 + year
FullYear(yi) == IF 0 <= yi /\ yi <= 99 THEN 1900 + yi ELSE yi

\* new Date(year, monthIndex, day) on numbers: each is truncated to an integer
NewDate(year, monthIndex, day) ==
    MakeDate(FullYear(Trunc(year)), Trunc(monthIndex), Trunc(day))

\* new Date(year, month - 1, day) once the three parts are finite numbers
DateOfParts(day, month, year) ==
    IF day.k # "num" \/ month.k # "num" \/ year.k # "num" THEN NullDate
    ELSE NewDate(year.v, month.v - NumOf(1), day.v)

\* parts = dateStr.split(" ")[0].split("/")
DateOfSplit(parts) ==
    IF Len(parts) # 3 THEN NullDate
    ELSE DateOfParts(StringToNumber(parts[1]), StringToNumber(parts[2]),
                     StringToNumber(parts[3]))

parseDate(dateStr) ==
    IF dateStr.k # "string" THEN NullDate
    ELSE IF dateStr.s = "" THEN NullDate
    ELSE DateOfSplit(Split(Split(dateStr.s, " ")[1], "/"))

FormatFields(c) ==
    PadStart(NatToString(c.date), 2, "0") \o "/"
    \o PadStart(NatToString(c.month + 1), 2, "0") \o "/" \o NatToString(c.year)

formatDate(date) ==
    IF date.k = "null" THEN "N/A"
    ELSE IF date.nan THEN "NaN/NaN/NaN"
    ELSE FormatFields(Civil(date.t))

InputValueOfFields(c) ==
    NatToString(c.year) \o "-" \o PadStart(NatToString(c.month + 1), 2, "0")
    \o "-" \o PadStart(NatToString(c.date), 2, "0")

toDateInputValue(date) == InputValueOfFields(Civil(date.t))

\* parts = value.split("-"): yyyy, mm, dd
DateOfInputParts(parts) ==
    IF Len(parts) # 3 THEN NullDate
    ELSE DateOfParts(StringToNumber(parts[3]), StringToNumber(parts[2]),
                     StringToNumber(parts[1]))

fromDateInputValue(value) ==
    IF value = "" THEN NullDate ELSE DateOfInputParts(Split(value, "-"))

\* Date comparison a >= b (relational operators on the time values; false with NaN)
DateGE(a, b) == ~a.nan /\ ~b.nan /\ a.t >= b.t

---------------------------------------------------------------------------
(* String.prototype.localeCompare with the default collation: characters compare
   first by their place in the collation order, letters regardless of case; strings
   equal at that level compare by case, lower case first. *)

CollationOrder == " _-,;:!?./()0123456789abcdefghijklmnopqrstuvwxyz"

\* a character outside the order follows every character of it
PrimaryKey(c) ==
    LET i == IndexOf(CollationOrder, LowerChar(c))
    IN IF i = 0 THEN Len(CollationOrder) + 1 ELSE i
CaseKey(c) == IF IndexOf(UpperLetters, c) # 0 THEN 1 ELSE 0
CollationKey(level, c) == IF level = "primary" THEN PrimaryKey(c) ELSE CaseKey(c)

RECURSIVE CompareKeys(_, _, _)
\* ka, kb: the keys of the first characters of a and b
CompareFrom(level, ka, kb, a, b) ==
    IF ka < kb THEN -1
    ELSE IF ka > kb THEN 1
    ELSE CompareKeys(level, SubSeq(a, 2, Len(a)), SubSeq(b, 2, Len(b)))

CompareKeys(level, a, b) ==
    IF a = "" /\ b = "" THEN 0
    ELSE IF a = "" THEN -1
    ELSE IF b = "" THEN 1
    ELSE CompareFrom(level, CollationKey(level, Ch(a, 1)), CollationKey(level, Ch(b, 1)),
                     a, b)

localeCompare(a, b) ==
    LET p == CompareKeys("primary", a, b)
    IN IF p # 0 THEN p ELSE CompareKeys("case", a, b)

Sign(x) == IF x < 0 THEN -1 ELSE IF x > 0 THEN 1 ELSE 0

---------------------------------------------------------------------------
(* Uploaded files.  A file decodes to the rows of its first sheet ("sheet"), makes
   XLSX.read throw ("corrupt"), or cannot be read by the FileReader ("unreadable"). *)

Sheet(rows) == [kind |-> "sheet", rows |-> rows]
CorruptFile == [kind |-> "corrupt", rows |-> <<>>]
UnreadableFile == [kind |-> "unreadable", rows |-> <<>>]

\* all sequences of at most n elements of S
SeqsUpTo(S, n) == UNION {[1..k -> S] : k \in 0..n}

RemoveAt(seq, i) == SubSeq(seq, 1, i - 1) \o SubSeq(seq, i + 1, Len(seq))

ProcessingError == "Error processing file. Please ensure it's a valid Excel file with the correct format."
CashinProcessingError == "Error processing file. Please ensure it's a valid Cash-In Excel file with the correct format."
ReadError == "Error reading file"

---------------------------------------------------------------------------
(* Deposit pipeline *)

\* Or(a, b): a || b on strings
Or_KeepEmpty(a, b) == a
Or(a, b) == IF a # "" THEN a ELSE b

DepositRecord(row) ==
    [clinicCode     |-> Or(stringFrom(row, "Deposit Purchase Clinic Code"), "Unknown"),
     userId         |-> stringFrom(row, "User ID"),
     omnicareId     |-> Or(stringFrom(row, "Omnicare Id"), Or(stringFrom(row, "Omnicare ID"), "")),
     userName       |-> stringFrom(row, "Name"),
     phoneNumber    |-> stringFrom(row, "Phone Number"),
     treatmentName  |-> stringFrom(row, "Treatment Display Name"),
     expirationDate |-> parseDate(Cell(row, "Deposit Expiration Time"))]

\* .filter((row) => numberFrom(row, "Remaining Quantity") > 0)
HasRemaining_NonNegative(row) == numberFrom(row, "Remaining Quantity") >= 0
HasRemaining(row) == numberFrom(row, "Remaining Quantity") > 0

\* if (!expirationDate || !userId) return;
Rejected_DateOnly(rec) == rec.expirationDate.k = "null"
Rejected(rec) == rec.expirationDate.k = "null" \/ rec.userId = ""

\* the forEach that fills processedRows
PushUnlessRejected(processedRows, rec) ==
    IF Rejected(rec) THEN processedRows ELSE Append(processedRows, rec)

ProcessRow(processedRows, row) ==
    IF HasRemaining(row) THEN PushUnlessRejected(processedRows, DepositRecord(row))
    ELSE processedRows

RECURSIVE ProcessedRows(_)
ProcessedRows(jsonData) ==
    IF jsonData = <<>> THEN <<>>
    ELSE ProcessRow(ProcessedRows(SubSeq(jsonData, 1, Len(jsonData) - 1)),
                    jsonData[Len(jsonData)])

\* the sort comparator: clinic A-Z, then expiration date ascending; the difference of
\* the time values is NaN when either date is invalid, which sort reads as 0
ClinicThenDate(clinicCompare, a, b) ==
    IF clinicCompare # 0 THEN clinicCompare
    ELSE IF a.expirationDate.nan \/ b.expirationDate.nan THEN 0
    ELSE Sign(a.expirationDate.t - b.expirationDate.t)
DepositCompare(a, b) == ClinicThenDate(localeCompare(a.clinicCode, b.clinicCode), a, b)

\* a.clinicCode.localeCompare(b.clinicCode), the comparator of the three aggregators
ClinicCompare_Reversed(a, b) == localeCompare(b.clinicCode, a.clinicCode)
ClinicCompare(a, b) == localeCompare(a.clinicCode, b.clinicCode)

\* the comparator handed to sort: "deposit" for the deposit rows, "clinic" for summaries
Compare(by, a, b) == IF by = "deposit" THEN DepositCompare(a, b) ELSE ClinicCompare(a, b)

(* Array.prototype.sort(comparefn): stable; with a comparator that is not a
   consistent comparison function for the elements the order is
   implementation-defined, so every rearrangement is a possible outcome. *)
\* v: the comparator's value on every pair of elements
ConsistentTable(v) ==
    \A a, b, c \in DOMAIN v :
          /\ v[a][a] = 0
          /\ v[a][b] = -v[b][a]
          /\ (v[a][b] = 0 /\ v[b][c] = 0) => v[a][c] = 0
          /\ (v[a][b] < 0 /\ v[b][c] < 0) => v[a][c] < 0
          /\ (v[a][b] = 0 /\ v[b][c] < 0) => v[a][c] < 0
          /\ (v[a][b] < 0 /\ v[b][c] = 0) => v[a][c] < 0

ConsistentOn(by, seq) ==
    ConsistentTable([i \in 1..Len(seq) |-> [j \in 1..Len(seq) |-> Compare(by, seq[i], seq[j])]])

\* x put into the sorted sequence after every element that does not follow it
RECURSIVE InsertSorted(_, _, _)
InsertSorted(by, x, sorted) ==
    IF sorted = <<>> THEN <<x>>
    ELSE IF Compare(by, x, sorted[1]) < 0 THEN <<x>> \o sorted
    ELSE <<sorted[1]>> \o InsertSorted(by, x, Tail(sorted))

RECURSIVE StableSort(_, _)
StableSort(by, seq) ==
    IF seq = <<>> THEN <<>>
    ELSE InsertSorted(by, seq[Len(seq)], StableSort(by, SubSeq(seq, 1, Len(seq) - 1)))

Rearrangements(seq) ==
    {[i \in 1..Len(seq) |-> seq[p[i]]] : p \in Permutations(1..Len(seq))}

SortOutcomes(by, seq) ==
    IF ConsistentOn(by, seq) THEN {StableSort(by, seq)} ELSE Rearrangements(seq)

\* end = new Date(start); end.setMonth(end.getMonth() + 2), on start's calendar fields
EndOfWindow_LastDay(c) ==
    IF MakeDate(c.year, c.month + 2, c.date).t > MakeDate(c.year, c.month + 3, 0).t
    THEN MakeDate(c.year, c.month + 3, 0)
    ELSE MakeDate(c.year, c.month + 2, c.date)
EndOfWindow(c) == MakeDate(c.year, c.month + 2, c.date)

RangeFrom(start) ==
    IF start.k = "null" THEN [k |-> "null", start |-> NullDate, end |-> NullDate]
    ELSE IF start.nan THEN [k |-> "range", start |-> start, end |-> InvalidDate]
    ELSE [k |-> "range", start |-> start, end |-> EndOfWindow(Civil(start.t))]

\* const depositDateRange = useMemo(...): null, or the window's start and end
depositDateRange == RangeFrom(fromDateInputValue(depositStartDate))

\* const data = useMemo(...): the displayed rows
InWindow_OpenEnd(row, range) ==
    DateGE(row.expirationDate, range.start) /\ ~DateGE(row.expirationDate, range.end)
InWindow(row, range) ==
    DateGE(row.expirationDate, range.start) /\ DateGE(range.end, row.expirationDate)
DataIn(range) ==
    IF range.k = "null" THEN <<>>
    ELSE SelectSeq(allDepositRows, LAMBDA row : InWindow(row, range))

data == DataIn(depositDateRange)

---------------------------------------------------------------------------
(* Clinic maps.  clinicMap is a plain object ({}) used as a map: a lookup
   clinicMap[key] finds the map's own entry or, failing that, what Object.prototype
   holds under key.  Own entries are kept in insertion order. *)

ObjectPrototypeKeys ==
    {"constructor", "hasOwnProperty", "isPrototypeOf", "propertyIsEnumerable",
     "toLocaleString", "toString", "valueOf", "__proto__", "__defineGetter__",
     "__defineSetter__", "__lookupGetter__", "__lookupSetter__"}

HasOwn(clinicMap, key) == \E i \in 1..Len(clinicMap) : clinicMap[i].clinicCode = key
OwnIndex(clinicMap, key) == CHOOSE i \in 1..Len(clinicMap) : clinicMap[i].clinicCode = key

\* clinicMap[key] is truthy without an own entry: the object Object.prototype holds
Inherited(clinicMap, key) == ~HasOwn(clinicMap, key) /\ key \in ObjectPrototypeKeys

\* a < b as numbers, for decimal numerals without leading zeros
RECURSIVE NumeralLess(_, _)
NumeralLess(a, b) ==
    IF Len(a) # Len(b) THEN Len(a) < Len(b)
    ELSE IF a = "" THEN FALSE
    ELSE IF Ch(a, 1) # Ch(b, 1) THEN DigitVal(Ch(a, 1)) < DigitVal(Ch(b, 1))
    ELSE NumeralLess(SubSeq(a, 2, Len(a)), SubSeq(b, 2, Len(b)))

\* an array index key ("0", "12", below 2^32 - 1): Object.values lists these first,
\* in numeric order
IsArrayIndex(key) ==
    /\ key # "" /\ AllDigits(key)
    /\ (Len(key) = 1 \/ Ch(key, 1) # "0")
    /\ NumeralLess(key, "4294967295")


RECURSIVE InsertByIndexKey(_, _)
InsertByIndexKey(x, sorted) ==
    IF sorted = <<>> THEN <<x>>
    ELSE IF NumeralLess(x.clinicCode, sorted[1].clinicCode) THEN <<x>> \o sorted
    ELSE <<sorted[1]>> \o InsertByIndexKey(x, Tail(sorted))

RECURSIVE SortByIndexKey(_)
SortByIndexKey(seq) ==
    IF seq = <<>> THEN <<>>
    ELSE InsertByIndexKey(seq[Len(seq)], SortByIndexKey(SubSeq(seq, 1, Len(seq) - 1)))

\* Object.values(clinicMap)
ObjectValues(clinicMap) ==
    SortByIndexKey(SelectSeq(clinicMap, LAMBDA e : IsArrayIndex(e.clinicCode)))
    \o SelectSeq(clinicMap, LAMBDA e : ~IsArrayIndex(e.clinicCode))

---------------------------------------------------------------------------
(* Revenue pipeline *)

NewRevenueSummary(clinicCode) ==
    [clinicCode |-> clinicCode,
     treatmentRetailPrice |-> 0, treatmentSellingPrice |-> 0, treatmentDiscount |-> 0,
     productRetailPrice |-> 0, productSellingPrice |-> 0, productDiscount |-> 0,
     total |-> 0]

\* the body of jsonData.forEach on one row
RevenueAddRow(clinicMap, row) ==
    LET clinicCode   == Or(stringFrom(row, "Clinic Code"), "Unknown")
        itemType     == lowerStringFrom(row, "Purchase Item Type")
        retailPrice  == numberFrom(row, "Total Retail Price")
        sellingPrice == numberFrom(row, "Total Selling Price")
        discount     == numberFrom(row, "Total Discount")
        finalPrice   == numberFrom(row, "Total Final Price")
        map1 == IF HasOwn(clinicMap, clinicCode) \/ Inherited(clinicMap, clinicCode)
                THEN clinicMap ELSE Append(clinicMap, NewRevenueSummary(clinicCode))
        i    == OwnIndex(map1, clinicCode)
        e    == map1[i]
        e1   == IF itemType = "treatment"
                THEN [e EXCEPT !.treatmentRetailPrice = @ + retailPrice,
                               !.treatmentSellingPrice = @ + sellingPrice,
                               !.treatmentDiscount = @ + discount]
                ELSE IF itemType = "product"
                THEN [e EXCEPT !.productRetailPrice = @ + retailPrice,
                               !.productSellingPrice = @ + sellingPrice,
                               !.productDiscount = @ + discount]
                ELSE e
    IN \* an inherited entry takes the additions; the map gains nothing
       IF Inherited(clinicMap, clinicCode) THEN clinicMap
       ELSE [map1 EXCEPT ![i] = [e1 EXCEPT !.total = @ + finalPrice]]

RECURSIVE RevenueClinicMap(_)
RevenueClinicMap(jsonData) ==
    IF jsonData = <<>> THEN <<>>
    ELSE RevenueAddRow(RevenueClinicMap(SubSeq(jsonData, 1, Len(jsonData) - 1)),
                       jsonData[Len(jsonData)])

\* const totals = useMemo(...): null (NoTotals) when revenueData is empty
NoTotals == [k |-> "null"]

RECURSIVE RevenueReduce(_)
RevenueReduce(seq) ==
    IF seq = <<>>
    THEN [k |-> "totals",
          treatmentRetailPrice |-> 0, treatmentSellingPrice |-> 0, treatmentDiscount |-> 0,
          productRetailPrice |-> 0, productSellingPrice |-> 0, productDiscount |-> 0,
          total |-> 0]
    ELSE LET acc    == RevenueReduce(SubSeq(seq, 1, Len(seq) - 1))
             clinic == seq[Len(seq)]
         IN [k |-> "totals",
             treatmentRetailPrice  |-> acc.treatmentRetailPrice + clinic.treatmentRetailPrice,
             treatmentSellingPrice |-> acc.treatmentSellingPrice + clinic.treatmentSellingPrice,
             treatmentDiscount     |-> acc.treatmentDiscount + clinic.treatmentDiscount,
             productRetailPrice    |-> acc.productRetailPrice + clinic.productRetailPrice,
             productSellingPrice   |-> acc.productSellingPrice + clinic.productSellingPrice,
             productDiscount       |-> acc.productDiscount + clinic.productDiscount,
             total                 |-> acc.total + clinic.total]

totals_ZeroRecord == RevenueReduce(revenueData)
totals == IF Len(revenueData) = 0 THEN NoTotals ELSE RevenueReduce(revenueData)

\* the Validation cell: Math.abs(total - checksum2) < 0.01 ? "PASS" : "FAIL";
\* 0.01 is between 1/128 and 2/128, so the difference d (in units) passes iff 100 d < 128
Checksum2(t) ==
    t.treatmentSellingPrice + t.productSellingPrice - t.treatmentDiscount - t.productDiscount
Validation_Exact(t) == IF Abs(t.total - Checksum2(t)) = 0 THEN "PASS" ELSE "FAIL"
Validation(t) == IF 100 * Abs(t.total - Checksum2(t)) < Unit THEN "PASS" ELSE "FAIL"

---------------------------------------------------------------------------
(* Deposit-purchase pipeline *)

NewDepositPurchaseSummary(clinicCode) ==
    [clinicCode |-> clinicCode,
     totalRetailPrice |-> 0, totalSellingPrice |-> 0, totalDiscount |-> 0, total |-> 0]

DepositPurchaseAddRow_Overwrite(clinicMap, row) ==
    LET clinicCode == Or(stringFrom(row, "Clinic Code"), "Unknown")
        map1 == IF HasOwn(clinicMap, clinicCode) \/ Inherited(clinicMap, clinicCode)
                THEN clinicMap ELSE Append(clinicMap, NewDepositPurchaseSummary(clinicCode))
        i    == OwnIndex(map1, clinicCode)
    IN IF Inherited(clinicMap, clinicCode) THEN clinicMap
       ELSE [map1 EXCEPT ![i] =
                [@ EXCEPT !.totalRetailPrice = @ + numberFrom(row, "Total Retail Price"),
                          !.totalSellingPrice = @ + numberFrom(row, "Total Selling Price"),
                          !.totalDiscount = @ + numberFrom(row, "Total Discount"),
                          !.total = numberFrom(row, "Total Final Price")]]
DepositPurchaseAddRow(clinicMap, row) ==
    LET clinicCode == Or(stringFrom(row, "Clinic Code"), "Unknown")
        map1 == IF HasOwn(clinicMap, clinicCode) \/ Inherited(clinicMap, clinicCode)
                THEN clinicMap ELSE Append(clinicMap, NewDepositPurchaseSummary(clinicCode))
        i    == OwnIndex(map1, clinicCode)
    IN IF Inherited(clinicMap, clinicCode) THEN clinicMap
       ELSE [map1 EXCEPT ![i] =
                [@ EXCEPT !.totalRetailPrice = @ + numberFrom(row, "Total Retail Price"),
                          !.totalSellingPrice = @ + numberFrom(row, "Total Selling Price"),
                          !.totalDiscount = @ + numberFrom(row, "Total Discount"),
                          !.total = @ + numberFrom(row, "Total Final Price")]]

RECURSIVE DepositPurchaseClinicMap(_)
DepositPurchaseClinicMap(jsonData) ==
    IF jsonData = <<>> THEN <<>>
    ELSE DepositPurchaseAddRow(
             DepositPurchaseClinicMap(SubSeq(jsonData, 1, Len(jsonData) - 1)),
             jsonData[Len(jsonData)])

RECURSIVE DepositPurchaseReduce(_)
DepositPurchaseReduce(seq) ==
    IF seq = <<>>
    THEN [k |-> "totals", totalRetailPrice |-> 0, totalSellingPrice |-> 0,
          totalDiscount |-> 0, total |-> 0]
    ELSE LET acc    == DepositPurchaseReduce(SubSeq(seq, 1, Len(seq) - 1))
             clinic == seq[Len(seq)]
         IN [k |-> "totals",
             totalRetailPrice  |-> acc.totalRetailPrice + clinic.totalRetailPrice,
             totalSellingPrice |-> acc.totalSellingPrice + clinic.totalSellingPrice,
             totalDiscount     |-> acc.totalDiscount + clinic.totalDiscount,
             total             |-> acc.total + clinic.total]

depositPurchaseTotals ==
    IF Len(depositPurchaseData) = 0 THEN NoTotals ELSE DepositPurchaseReduce(depositPurchaseData)

---------------------------------------------------------------------------
(* Cash-in pipeline *)

\* a value held in paymentMethodTotals: a number, or the text that + makes of a
\* non-number operand
NumValue(n) == [text |-> FALSE, n |-> n, s |-> ""]
TextValue(s) == [text |-> TRUE, n |-> 0, s |-> s]

\* what + makes of the function Object.prototype holds under key ("[object Object]"
\* for the prototype object itself, under __proto__)
InheritedText(key) ==
    IF key = "__proto__" THEN "[object Object]"
    ELSE "function " \o (IF key = "constructor" THEN "Object" ELSE key)
         \o "() { [native code] }"

HasMethod(pmt, method) == \E i \in 1..Len(pmt) : pmt[i].method = method
MethodIndex(pmt, method) == CHOOSE i \in 1..Len(pmt) : pmt[i].method = method

\* (paymentMethodTotals[paymentMethod] || 0) + amount
MethodSum(pmt, method, amount) ==
    IF HasMethod(pmt, method)
    THEN LET cur == pmt[MethodIndex(pmt, method)].value
         IN IF cur.text THEN TextValue(cur.s \o NumberToString(amount))
            ELSE NumValue(cur.n + amount)
    ELSE IF method \in ObjectPrototypeKeys
    THEN TextValue(InheritedText(method) \o NumberToString(amount))
    ELSE NumValue(amount)

\* paymentMethodTotals[paymentMethod] = value (an assignment to __proto__ of a value
\* that is no object is ignored)
SetMethod(pmt, method, value) ==
    IF HasMethod(pmt, method)
    THEN [pmt EXCEPT ![MethodIndex(pmt, method)] = [method |-> method, value |-> value]]
    ELSE IF method = "__proto__" THEN pmt
    ELSE Append(pmt, [method |-> method, value |-> value])

NewCashInSummary(clinicCode) ==
    [clinicCode |-> clinicCode, paymentMethodTotals |-> <<>>,
     deposit |-> 0, voucher |-> 0, nonDepositVoucher |-> 0, total |-> 0]

\* the body of jsonData.forEach on one row; st.threw: a TypeError ended the loop
CashinAddRow_AnyCase(st, row) ==
    LET clinicMap     == st.map
        clinicCode    == Or(stringFrom(row, "Clinic Code"), "Unknown")
        paymentMethod == Or(stringFrom(row, "Payment Method"), "Unknown")
        amount        == amountFrom(row, "Amount")
        map1 == IF HasOwn(clinicMap, clinicCode) \/ Inherited(clinicMap, clinicCode)
                THEN clinicMap ELSE Append(clinicMap, NewCashInSummary(clinicCode))
        i    == OwnIndex(map1, clinicCode)
        e    == map1[i]
        e1   == [e EXCEPT !.paymentMethodTotals =
                              SetMethod(@, paymentMethod, MethodSum(@, paymentMethod, amount)),
                          !.total = @ + amount]
        e2   == IF ToLowerCase(paymentMethod) = "treatment deposit"
                THEN [e1 EXCEPT !.deposit = @ + amount] ELSE e1
        e3   == IF paymentMethod \in {"Clinic Voucher - Value", "Clinic Voucher - Treatment"}
                THEN [e2 EXCEPT !.voucher = @ + amount] ELSE e2
    IN IF st.threw THEN st
       \* the inherited object has no paymentMethodTotals: reading a property of
       \* undefined throws
       ELSE IF Inherited(clinicMap, clinicCode) THEN [threw |-> TRUE, map |-> clinicMap]
       ELSE [threw |-> FALSE, map |-> [map1 EXCEPT ![i] = e3]]
CashinAddRow(st, row) ==
    LET clinicMap     == st.map
        clinicCode    == Or(stringFrom(row, "Clinic Code"), "Unknown")
        paymentMethod == Or(stringFrom(row, "Payment Method"), "Unknown")
        amount        == amountFrom(row, "Amount")
        map1 == IF HasOwn(clinicMap, clinicCode) \/ Inherited(clinicMap, clinicCode)
                THEN clinicMap ELSE Append(clinicMap, NewCashInSummary(clinicCode))
        i    == OwnIndex(map1, clinicCode)
        e    == map1[i]
        e1   == [e EXCEPT !.paymentMethodTotals =
                              SetMethod(@, paymentMethod, MethodSum(@, paymentMethod, amount)),
                          !.total = @ + amount]
        e2   == IF paymentMethod = "Treatment Deposit"
                THEN [e1 EXCEPT !.deposit = @ + amount] ELSE e1
        e3   == IF paymentMethod \in {"Clinic Voucher - Value", "Clinic Voucher - Treatment"}
                THEN [e2 EXCEPT !.voucher = @ + amount] ELSE e2
    IN IF st.threw THEN st
       \* the inherited object has no paymentMethodTotals: reading a property of
       \* undefined throws
       ELSE IF Inherited(clinicMap, clinicCode) THEN [threw |-> TRUE, map |-> clinicMap]
       ELSE [threw |-> FALSE, map |-> [map1 EXCEPT ![i] = e3]]

RECURSIVE CashinClinicMap(_)
CashinClinicMap(jsonData) ==
    IF jsonData = <<>> THEN [threw |-> FALSE, map |-> <<>>]
    ELSE CashinAddRow(CashinClinicMap(SubSeq(jsonData, 1, Len(jsonData) - 1)),
                      jsonData[Len(jsonData)])

\* .map((clinic) => ({ ...clinic, nonDepositVoucher: total - deposit - voucher }))
WithNonDepositVoucher_Stale(clinic) == clinic
WithNonDepositVoucher(clinic) ==
    [clinic EXCEPT !.nonDepositVoucher = clinic.total - clinic.deposit - clinic.voucher]

MapSeq_NonDepositVoucher(seq) == [i \in 1..Len(seq) |-> WithNonDepositVoucher(seq[i])]

RECURSIVE CashinReduce(_)
CashinReduce(seq) ==
    IF seq = <<>> THEN [k |-> "totals", nonDepositVoucher |-> 0, total |-> 0]
    ELSE LET acc    == CashinReduce(SubSeq(seq, 1, Len(seq) - 1))
             clinic == seq[Len(seq)]
         IN [k |-> "totals",
             nonDepositVoucher |-> acc.nonDepositVoucher + clinic.nonDepositVoucher,
             total             |-> acc.total + clinic.total]

cashinTotals == IF Len(cashinData) = 0 THEN NoTotals ELSE CashinReduce(cashinData)

---------------------------------------------------------------------------
(* The component's state and its handlers *)

Tabs == {"deposit-info", "revenue-validation", "deposit-purchase-validation",
         "cashin-report-validation"}

\* no file chosen: event.target.files is empty
NoFile == [kind |-> "none", rows |-> <<>>]

NotPublished == [done |-> FALSE, rows |-> <<>>]
Published(rows) == [done |-> TRUE, rows |-> rows]

\* the state after construction, but for the inputs a specification draws
InitState ==
    /\ allDepositRows = <<>> /\ loading = FALSE /\ error = "" /\ depositReads = <<>>
    /\ revenueData = <<>> /\ revenueLoading = FALSE /\ revenueError = ""
    /\ revenueReads = <<>>
    /\ depositPurchaseData = <<>> /\ depositPurchaseLoading = FALSE
    /\ depositPurchaseError = "" /\ depositPurchaseReads = <<>>
    /\ cashinData = <<>> /\ cashinLoading = FALSE /\ cashinError = ""
    /\ cashinReads = <<>>
    /\ lastRows = [deposit |-> NotPublished, revenue |-> NotPublished,
                   purchase |-> NotPublished, cashin |-> NotPublished]

depositVars == <<allDepositRows, loading, error, depositReads>>
revenueVars == <<revenueData, revenueLoading, revenueError, revenueReads>>
depositPurchaseVars == <<depositPurchaseData, depositPurchaseLoading, depositPurchaseError,
                         depositPurchaseReads>>
cashinVars == <<cashinData, cashinLoading, cashinError, cashinReads>>
coerceVars == <<cell, applied, result>>

\* onClick of a menu item
setActiveTab(id) ==
    /\ activeTab' = id
    /\ UNCHANGED <<pickedFile, depositStartDate, depositVars, revenueVars,
                   depositPurchaseVars, cashinVars, lastRows, coerceVars>>

\* the user turns to another file
PickFile(file) ==
    /\ pickedFile' = file
    /\ UNCHANGED <<activeTab, depositStartDate, depositVars, revenueVars,
                   depositPurchaseVars, cashinVars, lastRows, coerceVars>>

\* onChange of the start date input
setDepositStartDate_Narrowing(value) ==
    /\ activeTab = "deposit-info"
    /\ depositStartDate' = value
    /\ allDepositRows' = DataIn(RangeFrom(fromDateInputValue(value)))
    /\ UNCHANGED <<activeTab, pickedFile, loading, error, depositReads, revenueVars,
                   depositPurchaseVars, cashinVars, lastRows, coerceVars>>

setDepositStartDate(value) ==
    /\ activeTab = "deposit-info"
    /\ depositStartDate' = value
    /\ UNCHANGED <<activeTab, pickedFile, depositVars, revenueVars,
                   depositPurchaseVars, cashinVars, lastRows, coerceVars>>

(* Deposit *)

handleFileUpload ==
    /\ activeTab = "deposit-info"
    /\ Len(depositReads) < MaxReads
    /\ IF pickedFile = NoFile
       THEN UNCHANGED depositVars
       ELSE /\ loading' = TRUE
            /\ error' = ""
            /\ depositReads' = Append(depositReads, pickedFile)
            /\ UNCHANGED allDepositRows
    /\ UNCHANGED <<activeTab, pickedFile, depositStartDate, revenueVars,
                   depositPurchaseVars, cashinVars, lastRows, coerceVars>>

\* reader.onload of the i-th read in flight
DepositReaderOnload(i) ==
    /\ i \in 1..Len(depositReads)
    /\ depositReads[i].kind \in {"sheet", "corrupt"}
    /\ depositReads' = RemoveAt(depositReads, i)
    /\ IF depositReads[i].kind = "sheet"
       THEN /\ \E sorted \in SortOutcomes("deposit", ProcessedRows(depositReads[i].rows)) :
                  allDepositRows' = sorted
            /\ loading' = FALSE
            /\ lastRows' = [lastRows EXCEPT !.deposit = Published(depositReads[i].rows)]
            /\ UNCHANGED error
       ELSE /\ error' = ProcessingError
            /\ loading' = FALSE
            /\ UNCHANGED <<allDepositRows, lastRows>>
    /\ UNCHANGED <<activeTab, pickedFile, depositStartDate, revenueVars,
                   depositPurchaseVars, cashinVars, coerceVars>>

\* reader.onerror of the i-th read in flight
DepositReaderOnerror(i) ==
    /\ i \in 1..Len(depositReads)
    /\ depositReads[i].kind = "unreadable"
    /\ depositReads' = RemoveAt(depositReads, i)
    /\ error' = ReadError
    /\ loading' = FALSE
    /\ UNCHANGED <<allDepositRows, activeTab, pickedFile, depositStartDate, revenueVars,
                   depositPurchaseVars, cashinVars, lastRows, coerceVars>>

(* Revenue *)

handleRevenueUpload ==
    /\ activeTab = "revenue-validation"
    /\ Len(revenueReads) < MaxReads
    /\ IF pickedFile = NoFile
       THEN UNCHANGED revenueVars
       ELSE /\ revenueLoading' = TRUE
            /\ revenueError' = ""
            /\ revenueReads' = Append(revenueReads, pickedFile)
            /\ UNCHANGED revenueData
    /\ UNCHANGED <<activeTab, pickedFile, depositStartDate, depositVars,
                   depositPurchaseVars, cashinVars, lastRows, coerceVars>>

RevenueReaderOnload_Appending(i) ==
    /\ i \in 1..Len(revenueReads)
    /\ revenueReads[i].kind \in {"sheet", "corrupt"}
    /\ revenueReads' = RemoveAt(revenueReads, i)
    /\ IF revenueReads[i].kind = "sheet"
       THEN /\ \E sorted \in SortOutcomes("clinic",
                                ObjectValues(RevenueClinicMap(revenueReads[i].rows))) :
                  revenueData' = revenueData \o sorted
            /\ revenueLoading' = FALSE
            /\ lastRows' = [lastRows EXCEPT !.revenue = Published(revenueReads[i].rows)]
            /\ UNCHANGED revenueError
       ELSE /\ revenueError' = ProcessingError
            /\ revenueLoading' = FALSE
            /\ UNCHANGED <<revenueData, lastRows>>
    /\ UNCHANGED <<activeTab, pickedFile, depositStartDate, depositVars,
                   depositPurchaseVars, cashinVars, coerceVars>>

RevenueReaderOnload(i) ==
    /\ i \in 1..Len(revenueReads)
    /\ revenueReads[i].kind \in {"sheet", "corrupt"}
    /\ revenueReads' = RemoveAt(revenueReads, i)
    /\ IF revenueReads[i].kind = "sheet"
       THEN /\ \E sorted \in SortOutcomes("clinic",
                                ObjectValues(RevenueClinicMap(revenueReads[i].rows))) :
                  revenueData' = sorted
            /\ revenueLoading' = FALSE
            /\ lastRows' = [lastRows EXCEPT !.revenue = Published(revenueReads[i].rows)]
            /\ UNCHANGED revenueError
       ELSE /\ revenueError' = ProcessingError
            /\ revenueLoading' = FALSE
            /\ UNCHANGED <<revenueData, lastRows>>
    /\ UNCHANGED <<activeTab, pickedFile, depositStartDate, depositVars,
                   depositPurchaseVars, cashinVars, coerceVars>>

RevenueReaderOnerror(i) ==
    /\ i \in 1..Len(revenueReads)
    /\ revenueReads[i].kind = "unreadable"
    /\ revenueReads' = RemoveAt(revenueReads, i)
    /\ revenueError' = ReadError
    /\ revenueLoading' = FALSE
    /\ UNCHANGED <<revenueData, activeTab, pickedFile, depositStartDate, depositVars,
                   depositPurchaseVars, cashinVars, lastRows, coerceVars>>

(* Deposit purchase *)

handleDepositPurchaseUpload ==
    /\ activeTab = "deposit-purchase-validation"
    /\ Len(depositPurchaseReads) < MaxReads
    /\ IF pickedFile = NoFile
       THEN UNCHANGED depositPurchaseVars
       ELSE /\ depositPurchaseLoading' = TRUE
            /\ depositPurchaseError' = ""
            /\ depositPurchaseReads' = Append(depositPurchaseReads, pickedFile)
            /\ UNCHANGED depositPurchaseData
    /\ UNCHANGED <<activeTab, pickedFile, depositStartDate, depositVars,
                   revenueVars, cashinVars, lastRows, coerceVars>>

DepositPurchaseReaderOnload(i) ==
    /\ i \in 1..Len(depositPurchaseReads)
    /\ depositPurchaseReads[i].kind \in {"sheet", "corrupt"}
    /\ depositPurchaseReads' = RemoveAt(depositPurchaseReads, i)
    /\ IF depositPurchaseReads[i].kind = "sheet"
       THEN /\ \E sorted \in SortOutcomes("clinic",
                     ObjectValues(DepositPurchaseClinicMap(depositPurchaseReads[i].rows))) :
                  depositPurchaseData' = sorted
            /\ depositPurchaseLoading' = FALSE
            /\ lastRows' = [lastRows EXCEPT
                               !.purchase = Published(depositPurchaseReads[i].rows)]
            /\ UNCHANGED depositPurchaseError
       ELSE /\ depositPurchaseError' = ProcessingError
            /\ depositPurchaseLoading' = FALSE
            /\ UNCHANGED <<depositPurchaseData, lastRows>>
    /\ UNCHANGED <<activeTab, pickedFile, depositStartDate, depositVars,
                   revenueVars, cashinVars, coerceVars>>

DepositPurchaseReaderOnerror(i) ==
    /\ i \in 1..Len(depositPurchaseReads)
    /\ depositPurchaseReads[i].kind = "unreadable"
    /\ depositPurchaseReads' = RemoveAt(depositPurchaseReads, i)
    /\ depositPurchaseError' = ReadError
    /\ depositPurchaseLoading' = FALSE
    /\ UNCHANGED <<depositPurchaseData, activeTab, pickedFile, depositStartDate,
                   depositVars, revenueVars, cashinVars, lastRows, coerceVars>>

(* Cash-in *)

handleCashinUpload ==
    /\ activeTab = "cashin-report-validation"
    /\ Len(cashinReads) < MaxReads
    /\ IF pickedFile = NoFile
       THEN UNCHANGED cashinVars
       ELSE /\ cashinLoading' = TRUE
            /\ cashinError' = ""
            /\ cashinReads' = Append(cashinReads, pickedFile)
            /\ UNCHANGED cashinData
    /\ UNCHANGED <<activeTab, pickedFile, depositStartDate, depositVars,
                   revenueVars, depositPurchaseVars, lastRows, coerceVars>>

CashinReaderOnload_Partial(i) ==
    /\ i \in 1..Len(cashinReads)
    /\ cashinReads[i].kind \in {"sheet", "corrupt"}
    /\ cashinReads' = RemoveAt(cashinReads, i)
    /\ IF cashinReads[i].kind = "sheet"
       THEN /\ \E sorted \in SortOutcomes("clinic",
                     MapSeq_NonDepositVoucher(
                         ObjectValues(CashinClinicMap(cashinReads[i].rows).map))) :
                  cashinData' = sorted
            /\ cashinLoading' = FALSE
            /\ IF CashinClinicMap(cashinReads[i].rows).threw
               THEN cashinError' = CashinProcessingError /\ UNCHANGED lastRows
               ELSE /\ lastRows' = [lastRows EXCEPT
                                       !.cashin = Published(cashinReads[i].rows)]
                    /\ UNCHANGED cashinError
       ELSE /\ cashinError' = CashinProcessingError
            /\ cashinLoading' = FALSE
            /\ UNCHANGED <<cashinData, lastRows>>
    /\ UNCHANGED <<activeTab, pickedFile, depositStartDate, depositVars,
                   revenueVars, depositPurchaseVars, coerceVars>>

\* the catch branch is taken when XLSX.read throws and when a row's clinic entry is
\* one Object.prototype holds
CashinReaderOnload(i) ==
    /\ i \in 1..Len(cashinReads)
    /\ cashinReads[i].kind \in {"sheet", "corrupt"}
    /\ cashinReads' = RemoveAt(cashinReads, i)
    /\ IF cashinReads[i].kind = "sheet" /\ ~CashinClinicMap(cashinReads[i].rows).threw
       THEN /\ \E sorted \in SortOutcomes("clinic",
                     MapSeq_NonDepositVoucher(
                         ObjectValues(CashinClinicMap(cashinReads[i].rows).map))) :
                  cashinData' = sorted
            /\ cashinLoading' = FALSE
            /\ lastRows' = [lastRows EXCEPT !.cashin = Published(cashinReads[i].rows)]
            /\ UNCHANGED cashinError
       ELSE /\ cashinError' = CashinProcessingError
            /\ cashinLoading' = FALSE
            /\ UNCHANGED <<cashinData, lastRows>>
    /\ UNCHANGED <<activeTab, pickedFile, depositStartDate, depositVars,
                   revenueVars, depositPurchaseVars, coerceVars>>

CashinReaderOnerror_SharedError(i) ==
    /\ i \in 1..Len(cashinReads)
    /\ cashinReads[i].kind = "unreadable"
    /\ cashinReads' = RemoveAt(cashinReads, i)
    /\ error' = ReadError
    /\ cashinLoading' = FALSE
    /\ UNCHANGED <<cashinData, cashinError, activeTab, pickedFile, depositStartDate,
                   allDepositRows, loading, depositReads,
                   revenueVars, depositPurchaseVars, lastRows, coerceVars>>

CashinReaderOnerror(i) ==
    /\ i \in 1..Len(cashinReads)
    /\ cashinReads[i].kind = "unreadable"
    /\ cashinReads' = RemoveAt(cashinReads, i)
    /\ cashinError' = ReadError
    /\ cashinLoading' = FALSE
    /\ UNCHANGED <<cashinData, activeTab, pickedFile, depositStartDate, depositVars,
                   revenueVars, depositPurchaseVars, lastRows, coerceVars>>

---------------------------------------------------------------------------
(* Row normalisation of the deposit pipeline: sheets of well-formed and malformed rows *)

DepositRow(name, clinic, user, qty, expiry) ==
    [h \in {"Deposit Purchase Clinic Code", "User ID", "Omnicare Id", "Name",
            "Phone Number", "Treatment Display Name", "Deposit Expiration Time",
            "Remaining Quantity"} |->
        CASE h = "Deposit Purchase Clinic Code" -> clinic
          [] h = "User ID" -> user
          [] h = "Name" -> Str(name)
          [] h = "Deposit Expiration Time" -> expiry
          [] h = "Remaining Quantity" -> qty
          [] h = "Omnicare Id" -> Absent
          [] OTHER -> Str("")]

\* each row has its own Name, by which a stored record is traced to its row
NormRows ==
    { DepositRow("n0", Str("A"), Str("u1"), Numb(NumOf(1)), Str("15/02/2024")),
      \* Remaining Quantity
      DepositRow("q1", Str("A"), Str("u1"), Numb(0), Str("15/02/2024")),
      DepositRow("q2", Str("A"), Str("u1"), Str(""), Str("15/02/2024")),
      DepositRow("q3", Str("A"), Str("u1"), Str("abc"), Str("15/02/2024")),
      DepositRow("q4", Str("A"), Str("u1"), Numb(NumOf(-1)), Str("15/02/2024")),
      \* User ID
      DepositRow("u1", Str("A"), Str(""), Str(" 2 "), Str("15/02/2024 10:30:00")),
      \* Deposit Expiration Time
      DepositRow("d1", Str("A"), Str("u1"), Numb(NumOf(1)), Str("31/02/2024")),
      DepositRow("d2", Str("A"), Str("u1"), Numb(NumOf(1)), Str("2024-02-15")),
      DepositRow("d3", Str("A"), Numb(NumOf(7)), Numb(NumOf(1)), Str("")) }

NormFiles == {Sheet(rows) : rows \in SeqsUpTo(NormRows, MaxNormRows)}
                \cup {CorruptFile, UnreadableFile}

\* a start date whose window holds the well-formed rows
InitNormalize ==
    /\ InitState
    /\ activeTab = "deposit-info"
    /\ pickedFile \in NormFiles
    /\ depositStartDate = "2024-01-15"
    /\ cell = Absent /\ applied = "none" /\ result = 0

NextDeposit ==
    \/ handleFileUpload
    \/ \E i \in 1..MaxReads : DepositReaderOnload(i)
    \/ \E i \in 1..MaxReads : DepositReaderOnerror(i)

SpecNormalize == InitNormalize /\ [][NextDeposit]_vars

\* the records stored for a row, traced by its Name
StoredFor(row) ==
    {i \in 1..Len(allDepositRows) : allDepositRows[i].userName = stringFrom(row, "Name")}

UploadedDepositRows == {lastRows.deposit.rows[i] : i \in 1..Len(lastRows.deposit.rows)}

\* C1: a row whose Remaining Quantity coerces to a value <= 0 (a blank, missing or
\* non-numeric cell coerces to 0) leaves no record in the normalized deposit set
C1_NoRemainingDropped ==
    \A row \in UploadedDepositRows :
        numberFrom(row, "Remaining Quantity") <= 0 => StoredFor(row) = {}

C1_Witness ==
    /\ lastRows.deposit.done
    /\ Len(allDepositRows) > 0
    /\ \E row \in UploadedDepositRows :
          Cell(row, "Remaining Quantity") \in {Str(""), Str("abc"), Numb(NumOf(-1))}

\* C2: a row with an empty User ID, or an expiration cell for which parseDate gives
\* no value, leaves no record in the normalized set, even with a positive quantity
C2_RequiredFieldsDropped ==
    \A row \in UploadedDepositRows :
        (stringFrom(row, "User ID") = ""
            \/ parseDate(Cell(row, "Deposit Expiration Time")) = NullDate)
        => StoredFor(row) = {}

C2_Witness ==
    /\ lastRows.deposit.done
    /\ Len(allDepositRows) > 0
    /\ \E row \in UploadedDepositRows :
          /\ numberFrom(row, "Remaining Quantity") > 0
          /\ \/ stringFrom(row, "User ID") = ""
             \/ parseDate(Cell(row, "Deposit Expiration Time")) = NullDate

\* the day, month and year written in a cell text DD/MM/YYYY [time], when it has
\* that form
WrittenDate(text) ==
    LET parts == Split(Split(text, " ")[1], "/")
    IN IF Len(parts) = 3 /\ \A i \in 1..3 : parts[i] # "" /\ AllDigits(parts[i])
       THEN [ok |-> TRUE, year |-> DecimalValue(parts[3]),
             month |-> DecimalValue(parts[2]) - 1, date |-> DecimalValue(parts[1])]
       ELSE [ok |-> FALSE, year |-> 0, month |-> 0, date |-> 0]

\* C3: every stored record has a non-empty userId and an expirationDate that is a
\* valid date whose day, month and year are those written in its row's cell
C3_StoredRecordsValid ==
    \A i \in 1..Len(allDepositRows) :
        LET rec == allDepositRows[i]
        IN /\ rec.userId # ""
           /\ IsValidDate(rec.expirationDate)
           /\ \E row \in UploadedDepositRows :
                 LET c == Cell(row, "Deposit Expiration Time")
                     w == WrittenDate(c.s)
                 IN /\ stringFrom(row, "Name") = rec.userName
                    /\ c.k = "string" /\ w.ok
                    /\ Civil(rec.expirationDate.t)
                         = [year |-> w.year, month |-> w.month, date |-> w.date]

---------------------------------------------------------------------------
(* The deposit window: sheets of rows expiring on and around the window's bounds *)

\* the day number of a calendar day, month 1..12
DayNumber(y, m, d) == DayOfMonthStart(y, m - 1) + d - 1

WindowRows ==
    { DepositRow("w1", Str("B"), Str("u1"), Numb(NumOf(1)), Str("15/03/2024")),
      DepositRow("w2", Str("A"), Str("u2"), Numb(NumOf(2)), Str("16/03/2024")),
      DepositRow("w3", Str("B"), Str("u3"), Numb(NumOf(1)), Str("15/01/2024 08:00")),
      DepositRow("w4", Str("A"), Str("u4"), Numb(NumOf(1)), Str("14/01/2024")),
      DepositRow("w5", Str("B"), Str("u5"), Numb(NumOf(1)), Str("1/1/999999")) }

\* sheets of distinct rows
WindowFiles ==
    {Sheet(rows) : rows \in {r \in SeqsUpTo(WindowRows, MaxRows) :
                                \A i, j \in 1..Len(r) : r[i] = r[j] => i = j}}

\* the texts the date input can hold: a day, or nothing once it is cleared
StartDates == {"2024-01-15", "2023-12-31", ""}

\* the component is constructed on 2024-01-15
InitWindow ==
    /\ InitState
    /\ activeTab = "deposit-info"
    /\ pickedFile \in WindowFiles
    /\ depositStartDate = toDateInputValue(DateOf(DayNumber(2024, 1, 15)))
    /\ cell = Absent /\ applied = "none" /\ result = 0

\* one upload at a time: the next is started when the read before it has ended
NextWindow ==
    \/ depositReads = <<>> /\ handleFileUpload
    \/ \E i \in 1..MaxReads : DepositReaderOnload(i)
    \/ \E value \in StartDates : setDepositStartDate(value)

SpecWindow == InitWindow /\ [][NextWindow]_vars

Displayed == {data[i] : i \in 1..Len(data)}
Stored == {allDepositRows[i] : i \in 1..Len(allDepositRows)}
ExpiresOn(rec, text) == formatDate(rec.expirationDate) = text

\* C4: with a start date set, the displayed rows are exactly the stored records whose
\* expirationDate d has start <= d <= end, in their stored order; with start
\* 2024-01-15 the end is 2024-03-15, records expiring 15/03/2024 and 15/01/2024 are
\* displayed and records expiring 16/03/2024 and 14/01/2024 are not
C4_WindowInclusive ==
    /\ depositDateRange.k = "range" =>
          data = SelectSeq(allDepositRows,
                     LAMBDA rec : /\ ~rec.expirationDate.nan
                                  /\ depositDateRange.start.t <= rec.expirationDate.t
                                  /\ rec.expirationDate.t <= depositDateRange.end.t)
    /\ depositStartDate = "2024-01-15" =>
          /\ depositDateRange.start = DateOf(DayNumber(2024, 1, 15))
          /\ depositDateRange.end = DateOf(DayNumber(2024, 3, 15))
          /\ \A rec \in Stored :
                /\ (ExpiresOn(rec, "15/03/2024") \/ ExpiresOn(rec, "15/01/2024"))
                      => rec \in Displayed
                /\ (ExpiresOn(rec, "16/03/2024") \/ ExpiresOn(rec, "14/01/2024"))
                      => rec \notin Displayed

C4_Witness ==
    /\ depositStartDate = "2024-01-15"
    /\ \E rec \in Stored : ExpiresOn(rec, "15/03/2024") /\ rec \in Displayed
    /\ \E rec \in Stored : ExpiresOn(rec, "16/03/2024") /\ rec \notin Displayed

\* C5: in the displayed deposit sequence no record follows one whose clinic code
\* sorts after its own, and of two records of one clinic code the one expiring
\* earlier comes first
C5_DisplayedOrdered ==
    \A i, j \in 1..Len(data) :
        i < j =>
            /\ localeCompare(data[j].clinicCode, data[i].clinicCode) >= 0
            /\ data[i].clinicCode = data[j].clinicCode
                  => data[i].expirationDate.t <= data[j].expirationDate.t

---------------------------------------------------------------------------
(* The three aggregating pipelines: sheets of rows that carry the columns of the
   revenue, deposit-purchase and cash-in reports *)

ReportRow(clinic, type, retail, selling, discount, final, method, amount) ==
    [h \in {"Clinic Code", "Purchase Item Type", "Total Retail Price",
            "Total Selling Price", "Total Discount", "Total Final Price",
            "Payment Method", "Amount"} |->
        CASE h = "Clinic Code" -> Str(clinic)
          [] h = "Purchase Item Type" -> Str(type)
          [] h = "Total Retail Price" -> retail
          [] h = "Total Selling Price" -> selling
          [] h = "Total Discount" -> discount
          [] h = "Total Final Price" -> final
          [] h = "Payment Method" -> Str(method)
          [] OTHER -> amount]

ReportRows ==
    { ReportRow("A", "Treatment", Numb(NumOf(600)), Str("500"), Numb(NumOf(50)),
                Numb(NumOf(450)), "Treatment Deposit", Numb(NumOf(300))),
      ReportRow("A", "product", Numb(NumOf(300)), Numb(NumOf(300)), Numb(NumOf(20)),
                Numb(NumOf(280)), "Clinic Voucher - Value", Str("Rp200")),
      ReportRow("A", "", Numb(0), Numb(0), Numb(0),
                Numb(NumOf(1)), "Cash", Numb(NumOf(500))),
      \* a final price 1/128 and 2/128 above selling price less discount
      ReportRow("", "treatment", Numb(NumOf(10)), Numb(NumOf(10)), Numb(0),
                Numb(NumOf(10) + 1), "constructor", Numb(NumOf(1))),
      ReportRow("", "treatment", Numb(NumOf(10)), Numb(NumOf(10)), Numb(0),
                Numb(NumOf(10) + 2), "constructor", Numb(NumOf(2))),
      ReportRow("constructor", "product", Numb(NumOf(1)), Numb(NumOf(1)), Numb(0),
                Numb(NumOf(1)), "Cash", Numb(NumOf(1))) }

\* sheets of distinct rows, and the files that do not decode
ReportFiles ==
    {Sheet(rows) : rows \in {r \in SeqsUpTo(ReportRows, MaxRows) :
                                \A i, j \in 1..Len(r) : r[i] = r[j] => i = j}}
    \cup {CorruptFile, UnreadableFile}

InitAggregate ==
    /\ InitState
    /\ activeTab \in Tabs \ {"deposit-info"}
    /\ pickedFile \in ReportFiles
    /\ depositStartDate = ""
    /\ cell = Absent /\ applied = "none" /\ result = 0

\* one upload at a time: the next is started when the read before it has ended
NextAggregate ==
    \/ revenueReads = <<>> /\ handleRevenueUpload
    \/ \E i \in 1..MaxReads : RevenueReaderOnload(i)
    \/ \E i \in 1..MaxReads : RevenueReaderOnerror(i)
    \/ depositPurchaseReads = <<>> /\ handleDepositPurchaseUpload
    \/ \E i \in 1..MaxReads : DepositPurchaseReaderOnload(i)
    \/ \E i \in 1..MaxReads : DepositPurchaseReaderOnerror(i)
    \/ cashinReads = <<>> /\ handleCashinUpload
    \/ \E i \in 1..MaxReads : CashinReaderOnload(i)
    \/ \E i \in 1..MaxReads : CashinReaderOnerror(i)

SpecAggregate == InitAggregate /\ [][NextAggregate]_vars

SetOf(seq) == {seq[i] : i \in 1..Len(seq)}

\* a cash-in summary with its paymentMethodTotals as the set of its entries
MethodsAsSet(clinic) == [clinic EXCEPT !.paymentMethodTotals = SetOf(@)]
CashinSummaries(seq) == {MethodsAsSet(seq[i]) : i \in 1..Len(seq)}

\* C6: for each aggregating pipeline, the rows of the published upload taken in any
\* other order give the same summary for every clinic code (for cash-in, the same
\* per-method totals and derived fields)
C6_OrderIndependent ==
    /\ lastRows.revenue.done =>
          \A rows \in Rearrangements(lastRows.revenue.rows) :
              SetOf(ObjectValues(RevenueClinicMap(rows))) = SetOf(revenueData)
    /\ lastRows.purchase.done =>
          \A rows \in Rearrangements(lastRows.purchase.rows) :
              SetOf(ObjectValues(DepositPurchaseClinicMap(rows))) = SetOf(depositPurchaseData)
    /\ lastRows.cashin.done =>
          \A rows \in Rearrangements(lastRows.cashin.rows) :
              /\ ~CashinClinicMap(rows).threw
              /\ CashinSummaries(MapSeq_NonDepositVoucher(
                     ObjectValues(CashinClinicMap(rows).map))) = CashinSummaries(cashinData)

\* the sum of the amounts of the rows of a clinic paid by one of the methods
RECURSIVE AmountOf(_, _, _)
AmountOf(rows, clinicCode, methods) ==
    IF rows = <<>> THEN 0
    ELSE AmountOf(Tail(rows), clinicCode, methods)
         + (IF /\ Or(stringFrom(rows[1], "Clinic Code"), "Unknown") = clinicCode
               /\ Or(stringFrom(rows[1], "Payment Method"), "Unknown") \in methods
            THEN amountFrom(rows[1], "Amount") ELSE 0)

DepositMethods == {"Treatment Deposit"}
VoucherMethods == {"Clinic Voucher - Value", "Clinic Voucher - Treatment"}
MethodsOf(rows) == {Or(stringFrom(rows[i], "Payment Method"), "Unknown") : i \in 1..Len(rows)}

\* C8: every clinic summary of a published cash-in result has nonDepositVoucher =
\* total - deposit - voucher, where total, deposit and voucher are the sums over all
\* the rows of the clinic; total 1000, deposit 300, voucher 200 give 500
C8_NonDepositVoucher ==
    \A i \in 1..Len(cashinData) :
        /\ cashinData[i].nonDepositVoucher
             = cashinData[i].total - cashinData[i].deposit - cashinData[i].voucher
        /\ cashinData[i].nonDepositVoucher
             = AmountOf(lastRows.cashin.rows, cashinData[i].clinicCode,
                        MethodsOf(lastRows.cashin.rows) \ (DepositMethods \cup VoucherMethods))
        /\ (/\ cashinData[i].total = NumOf(1000)
            /\ cashinData[i].deposit = NumOf(300)
            /\ cashinData[i].voucher = NumOf(200))
           => cashinData[i].nonDepositVoucher = NumOf(500)

C8_Witness ==
    \E i \in 1..Len(cashinData) :
        /\ cashinData[i].total = NumOf(1000)
        /\ cashinData[i].deposit = NumOf(300)
        /\ cashinData[i].voucher = NumOf(200)
        /\ cashinData[i].nonDepositVoucher = NumOf(500)

\* total less the checksum of the grand totals, in units
ChecksumGap(t) ==
    t.total - ((t.treatmentSellingPrice + t.productSellingPrice)
               - (t.treatmentDiscount + t.productDiscount))

\* C9: with revenue totals present, the validation is PASS when the gap between
\* total and the checksum is below 0.01 (of the model's values: 0 or 1/128 either
\* way) and FAIL otherwise; selling 500 and 300, discounts 50 and 20 pass with total
\* 730 and fail with total 731; a published result leaves the revenue error empty
C9_ChecksumTolerance ==
    totals # NoTotals =>
        /\ Validation(totals) = "PASS" <=> ChecksumGap(totals) \in {-1, 0, 1}
        /\ Validation(totals) = "FAIL" <=> ChecksumGap(totals) \notin {-1, 0, 1}
        /\ (/\ totals.treatmentSellingPrice = NumOf(500)
            /\ totals.productSellingPrice = NumOf(300)
            /\ totals.treatmentDiscount = NumOf(50)
            /\ totals.productDiscount = NumOf(20))
           => /\ totals.total = NumOf(730) => Validation(totals) = "PASS"
              /\ totals.total = NumOf(731) => Validation(totals) = "FAIL"
        /\ revenueError = ""

C9_Witness ==
    /\ totals # NoTotals
    /\ totals.treatmentSellingPrice = NumOf(500)
    /\ totals.productSellingPrice = NumOf(300)
    /\ totals.treatmentDiscount = NumOf(50)
    /\ totals.productDiscount = NumOf(20)
    /\ totals.total = NumOf(731)
    /\ Validation(totals) = "FAIL"
    /\ ~revenueLoading

\* C10: a published upload of zero rows leaves an empty per-clinic result and null
\* totals in each aggregating pipeline, and totals are null exactly when the
\* per-clinic result is empty
C10_EmptyUpload ==
    /\ (lastRows.revenue.done /\ lastRows.revenue.rows = <<>>)
          => revenueData = <<>> /\ totals = NoTotals
    /\ (lastRows.purchase.done /\ lastRows.purchase.rows = <<>>)
          => depositPurchaseData = <<>> /\ depositPurchaseTotals = NoTotals
    /\ (lastRows.cashin.done /\ lastRows.cashin.rows = <<>>)
          => cashinData = <<>> /\ cashinTotals = NoTotals
    /\ totals = NoTotals <=> revenueData = <<>>
    /\ depositPurchaseTotals = NoTotals <=> depositPurchaseData = <<>>
    /\ cashinTotals = NoTotals <=> cashinData = <<>>

C10_Witness ==
    /\ lastRows.revenue.done /\ lastRows.revenue.rows = <<>>
    /\ ~revenueLoading /\ revenueError = ""

---------------------------------------------------------------------------
(* Cell coercion on its own: one cell, and the coercions applied to it *)

CoerceAlphabet == {"0", "1", "7", "-", "p"}

RECURSIVE Concat(_)
Concat(chars) == IF chars = <<>> THEN "" ELSE chars[1] \o Concat(Tail(chars))

CoerceCells ==
    {Str(Concat(chars)) : chars \in SeqsUpTo(CoerceAlphabet, MaxStrLen)}
    \cup {Str("Rp310.000"), Str("310.000"), Str("310000"), Numb(NumOf(310000)),
          Numb(NumOf(1) + 64), Numb(NumOf(-2)), Numb(0), Absent, Other}

InitCoerce ==
    /\ InitState
    /\ activeTab = "cashin-report-validation"
    /\ pickedFile = NoFile
    /\ depositStartDate = ""
    /\ cell \in CoerceCells /\ applied = "none" /\ result = 0

\* the row of one column that holds the cell
CellRow == [h \in {"Amount"} |-> cell]

ApplyAmountFrom ==
    /\ applied' = "amountFrom"
    /\ result' = amountFrom(CellRow, "Amount")
    /\ UNCHANGED <<cell, activeTab, pickedFile, depositStartDate, depositVars, revenueVars,
                   depositPurchaseVars, cashinVars, lastRows>>

NextCoerce == ApplyAmountFrom

SpecCoerce == InitCoerce /\ [][NextCoerce]_vars

\* the integer whose decimal digits are the digit characters of s, in order
RECURSIVE DigitFold(_, _)
DigitFold(s, acc) ==
    IF s = "" THEN acc
    ELSE DigitFold(SubSeq(s, 2, Len(s)),
                   IF Ch(s, 1) \in {"0", "1", "2", "3", "4", "5", "6", "7", "8", "9"}
                   THEN 10 * acc + (CHOOSE d \in 0..9 : Ch("0123456789", d + 1) = Ch(s, 1))
                   ELSE acc)

\* C7: amountFrom returns a number cell unchanged, makes of a string cell the integer
\* of its digit characters in order (0 when it has none), and gives 0 for any other
\* cell; "Rp310.000", "310.000" and the number 310000 all give 310000
C7_AmountFrom ==
    applied = "amountFrom" =>
        /\ cell.k = "number" => result = cell.n
        /\ cell.k = "string" => result = NumOf(DigitFold(cell.s, 0))
        /\ cell.k \notin {"number", "string"} => result = 0
        /\ cell \in {Str("Rp310.000"), Str("310.000"), Numb(NumOf(310000))}
              => result = NumOf(310000)

C7_Witness ==
    /\ applied = "amountFrom"
    /\ cell = Str("Rp310.000")
    /\ result = NumOf(310000)

---------------------------------------------------------------------------
(* The "Unknown" clinic: reports whose Clinic Code cell is empty, missing, of
   another type, the literal "Unknown", a space, or a code of its own *)

\* the row with its Clinic Code cell replaced, and with the column missing
WithClinicCell(row, c) == [row EXCEPT !["Clinic Code"] = c]
WithoutClinicCode(row) == [h \in DOMAIN row \ {"Clinic Code"} |-> row[h]]

\* a report row of final price and amount n to clinic "A"
PricedRow(n) ==
    ReportRow("A", "treatment", Numb(NumOf(n)), Numb(NumOf(n)), Numb(0), Numb(NumOf(n)),
              "Cash", Numb(NumOf(n)))

\* the final prices (and amounts) are distinct powers of two: a sum names its rows
UnknownRows ==
    { WithClinicCell(PricedRow(1), Str("")),
      WithoutClinicCode(PricedRow(2)),
      WithClinicCell(PricedRow(4), Other),
      WithClinicCell(PricedRow(8), Str("Unknown")),
      PricedRow(16),
      WithClinicCell(PricedRow(32), Str(" ")),
      \* a clinic code that Object.prototype holds
      WithClinicCell(PricedRow(64), Str("constructor")) }

UnknownFiles ==
    {Sheet(rows) : rows \in {r \in SeqsUpTo(UnknownRows, MaxRows) :
                                \A i, j \in 1..Len(r) : r[i] = r[j] => i = j}}
    \cup {CorruptFile, UnreadableFile}

InitUnknown ==
    /\ InitState
    /\ activeTab \in Tabs \ {"deposit-info"}
    /\ pickedFile \in UnknownFiles
    /\ depositStartDate = ""
    /\ cell = Absent /\ applied = "none" /\ result = 0

SpecUnknown == InitUnknown /\ [][NextAggregate]_vars

\* the Clinic Code cell is empty or missing (or no text or number at all), or is
\* the literal "Unknown"
SentinelRow(row) ==
    \/ "Clinic Code" \notin DOMAIN row
    \/ row["Clinic Code"] \in {Str(""), Other, Str("Unknown")}

\* the sum of the numbers in column key over the sentinel rows
RECURSIVE SentinelSum(_, _)
SentinelSum(rows, key) ==
    IF rows = <<>> THEN 0
    ELSE SentinelSum(Tail(rows), key)
         + (IF SentinelRow(rows[1]) THEN rows[1][key].n ELSE 0)

\* in a result published from rows: no summary is keyed by the empty text; there
\* is one summary keyed "Unknown" when a sentinel row exists, none otherwise; its
\* total is the sum of column key over the sentinel rows
UnknownGrouped(pub, summaries, key) ==
    pub.done =>
        /\ \A i \in 1..Len(summaries) : summaries[i].clinicCode # ""
        /\ Cardinality({i \in 1..Len(summaries) : summaries[i].clinicCode = "Unknown"})
              = (IF \E j \in 1..Len(pub.rows) : SentinelRow(pub.rows[j]) THEN 1 ELSE 0)
        /\ \A i \in 1..Len(summaries) :
              summaries[i].clinicCode = "Unknown"
                 => summaries[i].total = SentinelSum(pub.rows, key)

\* C11: in the revenue, deposit-purchase and cash-in results alike, the rows whose
\* Clinic Code cell is empty or missing are accumulated into the one summary keyed
\* "Unknown", together with the rows whose clinic code is the literal "Unknown";
\* no other summary takes any of their amounts
C11_UnknownSentinel ==
    /\ UnknownGrouped(lastRows.revenue, revenueData, "Total Final Price")
    /\ UnknownGrouped(lastRows.purchase, depositPurchaseData, "Total Final Price")
    /\ UnknownGrouped(lastRows.cashin, cashinData, "Amount")

\* a cash-in sheet of an empty cell (1), a missing column (2) and the literal
\* "Unknown" (8) is published as one summary, keyed "Unknown", of total 11
C11_Witness ==
    /\ lastRows.cashin.done
    /\ Len(lastRows.cashin.rows) = 3
    /\ \E i \in 1..3 : lastRows.cashin.rows[i] = WithClinicCell(PricedRow(1), Str(""))
    /\ \E i \in 1..3 : lastRows.cashin.rows[i] = WithoutClinicCode(PricedRow(2))
    /\ \E i \in 1..3 : lastRows.cashin.rows[i] = WithClinicCell(PricedRow(8), Str("Unknown"))
    /\ Len(cashinData) = 1
    /\ cashinData[1].clinicCode = "Unknown"
    /\ cashinData[1].total = NumOf(11)

---------------------------------------------------------------------------
(* Repeated uploads: the user stays on one tab, turns from file to file and
   uploads each when the read before it has ended *)

JoinRows(a, b) == [h \in DOMAIN a \cup DOMAIN b |-> IF h \in DOMAIN a THEN a[h] ELSE b[h]]

\* a row with the columns of all four reports: clinic, and n in every amount
RepeatRow(clinic, n) ==
    JoinRows(DepositRow("n", Str(clinic), Str("u"), Numb(NumOf(n)), Str("15/02/2024")),
             ReportRow(clinic, "product", Numb(NumOf(n)), Numb(NumOf(n)), Numb(0),
                       Numb(NumOf(n)), "Cash", Numb(NumOf(n))))

\* two sheets of different clinics, a sheet whose second row has a clinic code
\* that Object.prototype holds, and the files that do not decode
RepeatFiles ==
    { Sheet(<<RepeatRow("A", 1)>>),
      Sheet(<<RepeatRow("B", 2)>>),
      Sheet(<<RepeatRow("B", 2), RepeatRow("constructor", 4)>>),
      CorruptFile, UnreadableFile }

InitRepeat ==
    /\ InitState
    /\ activeTab \in Tabs
    /\ pickedFile \in RepeatFiles
    /\ depositStartDate = ""
    /\ cell = Absent /\ applied = "none" /\ result = 0

NextRepeat ==
    \/ \E file \in RepeatFiles : PickFile(file)
    \/ depositReads = <<>> /\ handleFileUpload
    \/ \E i \in 1..MaxReads : DepositReaderOnload(i)
    \/ \E i \in 1..MaxReads : DepositReaderOnerror(i)
    \/ revenueReads = <<>> /\ handleRevenueUpload
    \/ \E i \in 1..MaxReads : RevenueReaderOnload(i)
    \/ \E i \in 1..MaxReads : RevenueReaderOnerror(i)
    \/ depositPurchaseReads = <<>> /\ handleDepositPurchaseUpload
    \/ \E i \in 1..MaxReads : DepositPurchaseReaderOnload(i)
    \/ \E i \in 1..MaxReads : DepositPurchaseReaderOnerror(i)
    \/ cashinReads = <<>> /\ handleCashinUpload
    \/ \E i \in 1..MaxReads : CashinReaderOnload(i)
    \/ \E i \in 1..MaxReads : CashinReaderOnerror(i)

SpecRepeat == InitRepeat /\ [][NextRepeat]_vars

\* the file does not decode, or (cash-in) a row's clinic code is a key of
\* Object.prototype, on which the loop over the rows throws
FailingFile(report, file) ==
    \/ file.kind \in {"corrupt", "unreadable"}
    \/ /\ report = "cashin"
       /\ \E j \in 1..Len(file.rows) :
             stringFrom(file.rows[j], "Clinic Code") \in ObjectPrototypeKeys

\* the message the report shows for the failure of file
FailureMessage(report, file) ==
    IF file.kind = "unreadable" THEN ReadError
    ELSE IF report = "cashin" THEN CashinProcessingError
    ELSE ProcessingError

\* a step in which the callback of a failing read of the report runs
FailedCallback(report, reads, readsAfter) ==
    \E i \in 1..Len(reads) : readsAfter = RemoveAt(reads, i) /\ FailingFile(report, reads[i])

\* on such a step the result set and the rows it was published from stay as they
\* were, the error message becomes the failure's message, the loading flag is off
FailureKeeps(report, reads, readsAfter, before, after, errorAfter, loadingAfter) ==
    FailedCallback(report, reads, readsAfter) =>
        /\ after = before
        /\ lastRows'[report] = lastRows[report]
        /\ \E i \in 1..Len(reads) :
              /\ readsAfter = RemoveAt(reads, i)
              /\ errorAfter = FailureMessage(report, reads[i])
        /\ loadingAfter = FALSE

\* C12 (as the code has it): when the decode or the processing of an upload fails,
\* the report's published result set is unchanged and no partial result is
\* published; the report's error message is set to the message of the failure and
\* its loading flag is cleared
C12_FailedUpload ==
    [][/\ FailureKeeps("deposit", depositReads, depositReads',
                       allDepositRows, allDepositRows', error', loading')
       /\ FailureKeeps("revenue", revenueReads, revenueReads',
                       revenueData, revenueData', revenueError', revenueLoading')
       /\ FailureKeeps("purchase", depositPurchaseReads, depositPurchaseReads',
                       depositPurchaseData, depositPurchaseData',
                       depositPurchaseError', depositPurchaseLoading')
       /\ FailureKeeps("cashin", cashinReads, cashinReads',
                       cashinData, cashinData', cashinError', cashinLoading')]_vars

\* the cash-in result of clinic "A" is still shown after the upload of the sheet
\* whose second row throws: nothing of clinic "B" was published
C12_Witness ==
    /\ lastRows.cashin = Published(<<RepeatRow("A", 1)>>)
    /\ Len(cashinData) = 1 /\ cashinData[1].clinicCode = "A"
    /\ pickedFile = Sheet(<<RepeatRow("B", 2), RepeatRow("constructor", 4)>>)
    /\ cashinReads = <<>>
    /\ cashinError = CashinProcessingError
    /\ ~cashinLoading

\* C12 (as stated): a failed upload leaves the error message and the loading flag
\* as they were before the upload began; so while no upload of a report has been
\* published and none is in flight (every upload so far has failed), the report's
\* error message is still empty and its loading flag off, as at the start
C12_UiStateAsBefore ==
    /\ (depositReads = <<>> /\ ~lastRows.deposit.done) => (error = "" /\ ~loading)
    /\ (revenueReads = <<>> /\ ~lastRows.revenue.done)
          => (revenueError = "" /\ ~revenueLoading)
    /\ (depositPurchaseReads = <<>> /\ ~lastRows.purchase.done)
          => (depositPurchaseError = "" /\ ~depositPurchaseLoading)
    /\ (cashinReads = <<>> /\ ~lastRows.cashin.done)
          => (cashinError = "" /\ ~cashinLoading)

---------------------------------------------------------------------------
(* Totals of the aggregating reports (SpecAggregate) *)

\* the numeric fields of a per-clinic summary, and of a totals record
SummaryFields(clinic) == DOMAIN clinic \ {"clinicCode", "paymentMethodTotals"}
TotalsFields(t) == DOMAIN t \ {"k"}

RECURSIVE FieldSum(_, _)
FieldSum(summaries, f) ==
    IF summaries = <<>> THEN 0
    ELSE summaries[1][f] + FieldSum(Tail(summaries), f)

\* the totals record t of the published summaries has the numeric fields of a
\* summary, each the sum of that field over the summaries
FieldwiseSum(summaries, t) ==
    summaries # <<>> =>
        /\ t # NoTotals
        /\ TotalsFields(t) = SummaryFields(summaries[1])
        /\ \A f \in SummaryFields(summaries[1]) : t[f] = FieldSum(summaries, f)

\* C13: the totals record of each report has the numeric fields of the report's
\* per-clinic summary, each the sum of that field over the per-clinic summaries;
\* the cash-in totals carry deposit, voucher, nonDepositVoucher and total
C13_TotalsFieldwise ==
    /\ FieldwiseSum(revenueData, totals)
    /\ FieldwiseSum(depositPurchaseData, depositPurchaseTotals)
    /\ FieldwiseSum(cashinData, cashinTotals)

---------------------------------------------------------------------------
(* The revenue report on its own: item types in several spellings *)

\* a revenue row of clinic and item type whose retail price is n units (of 1/128),
\* selling price 2^7 n, discount 2^14 n and final price 2^21 n: with n a power of
\* two below 2^7 per row, a field's sum names the rows and the columns that went
\* into it
RevenueRow(clinic, type, n) ==
    ReportRow(clinic, type, Numb(n), Numb(2^7 * n), Numb(2^14 * n), Numb(2^21 * n),
              "", Numb(0))

RevenueRows ==
    { RevenueRow("A", "treatment", 1),
      RevenueRow("A", "TREATMENT", 2),
      RevenueRow("A", "Product", 4),
      RevenueRow("A", "", 8),
      RevenueRow("A", "treatment ", 16),
      RevenueRow("B", "product", 32),
      RevenueRow("constructor", "treatment", 64) }

RevenueFiles ==
    {Sheet(rows) : rows \in {r \in SeqsUpTo(RevenueRows, MaxRows) :
                                \A i, j \in 1..Len(r) : r[i] = r[j] => i = j}}
    \cup {CorruptFile, UnreadableFile}

InitRevenue ==
    /\ InitState
    /\ activeTab = "revenue-validation"
    /\ pickedFile \in RevenueFiles
    /\ depositStartDate = ""
    /\ cell = Absent /\ applied = "none" /\ result = 0

NextRevenue ==
    \/ revenueReads = <<>> /\ handleRevenueUpload
    \/ \E i \in 1..MaxReads : RevenueReaderOnload(i)
    \/ \E i \in 1..MaxReads : RevenueReaderOnerror(i)

SpecRevenue == InitRevenue /\ [][NextRevenue]_vars

\* the item types that equal "treatment" and "product" but for letter case
TreatmentSpellings == {"treatment", "Treatment", "TREATMENT"}
ProductSpellings == {"product", "Product", "PRODUCT"}
AllItemTypes == {"treatment", "TREATMENT", "Product", "", "treatment ", "product"}

\* the clinic a row belongs to: the text of its Clinic Code cell, "Unknown" if empty
ClinicOfRow(row) ==
    IF row["Clinic Code"].s = "" THEN "Unknown" ELSE row["Clinic Code"].s

\* the sum of column key over the rows of the clinic whose item type is in types
RECURSIVE ColumnSum(_, _, _, _)
ColumnSum(rows, clinic, types, key) ==
    IF rows = <<>> THEN 0
    ELSE ColumnSum(Tail(rows), clinic, types, key)
         + (IF ClinicOfRow(rows[1]) = clinic /\ rows[1]["Purchase Item Type"].s \in types
            THEN rows[1][key].n ELSE 0)

\* summary is what the rows of its clinic add up to under the classification
ClassifiedSums(rows, summary) ==
    /\ summary.total
          = ColumnSum(rows, summary.clinicCode, AllItemTypes, "Total Final Price")
    /\ summary.treatmentRetailPrice
          = ColumnSum(rows, summary.clinicCode, TreatmentSpellings, "Total Retail Price")
    /\ summary.treatmentSellingPrice
          = ColumnSum(rows, summary.clinicCode, TreatmentSpellings, "Total Selling Price")
    /\ summary.treatmentDiscount
          = ColumnSum(rows, summary.clinicCode, TreatmentSpellings, "Total Discount")
    /\ summary.productRetailPrice
          = ColumnSum(rows, summary.clinicCode, ProductSpellings, "Total Retail Price")
    /\ summary.productSellingPrice
          = ColumnSum(rows, summary.clinicCode, ProductSpellings, "Total Selling Price")
    /\ summary.productDiscount
          = ColumnSum(rows, summary.clinicCode, ProductSpellings, "Total Discount")

\* C14: in a published revenue result every row's clinic has one summary; its
\* total is the sum of the final prices of all the clinic's rows, its treatment
\* fields sum the rows whose item type is "treatment" in any letter case, its
\* product fields those whose type is "product" in any letter case, and a row of
\* another type (empty, "treatment " with a space) is in neither bucket
C14_RevenueClassification ==
    lastRows.revenue.done =>
        /\ \A j \in 1..Len(lastRows.revenue.rows) :
              Cardinality({i \in 1..Len(revenueData) :
                  revenueData[i].clinicCode = ClinicOfRow(lastRows.revenue.rows[j])}) = 1
        /\ \A i \in 1..Len(revenueData) :
              ClassifiedSums(lastRows.revenue.rows, revenueData[i])

---------------------------------------------------------------------------
(* Changes of the window start (SpecWindow) *)

\* what the sort can leave of the records of the rows published last
PublishedDepositOutcomes ==
    IF lastRows.deposit.done
    THEN SortOutcomes("deposit", ProcessedRows(lastRows.deposit.rows))
    ELSE {<<>>}

\* C15: a change of the deposit start date (to a day, to the empty text, and back)
\* leaves the stored records and the rows they were published from as they
\* were; so after any changes of the start the stored records are those of the
\* upload published last, and the displayed rows, the stored records in the
\* window of the present start, are what that start gives when chosen first
C15_WindowNonDestructive ==
    /\ [](allDepositRows \in PublishedDepositOutcomes)
    /\ [][depositStartDate' # depositStartDate =>
             allDepositRows' = allDepositRows /\ lastRows' = lastRows]_vars

\* the start date was cleared: nothing is displayed, the stored records are kept
C15_Witness ==
    /\ depositStartDate = ""
    /\ lastRows.deposit.done
    /\ Len(allDepositRows) >= 2
    /\ data = <<>>
    /\ depositReads = <<>>

---------------------------------------------------------------------------
(* The four reports side by side: the user moves between the tabs and uploads a
   file to a report while reads of the other reports are still in flight *)

IsolationFiles == {Sheet(<<RepeatRow("A", 1)>>), UnreadableFile}

InitIsolation ==
    /\ InitState
    /\ activeTab = "deposit-info"
    /\ pickedFile \in IsolationFiles
    /\ depositStartDate = ""
    /\ cell = Absent /\ applied = "none" /\ result = 0

\* one upload at a time for each report
NextIsolation ==
    \/ \E id \in Tabs : setActiveTab(id)
    \/ \E file \in IsolationFiles : PickFile(file)
    \/ depositReads = <<>> /\ handleFileUpload
    \/ \E i \in 1..MaxReads : DepositReaderOnload(i)
    \/ \E i \in 1..MaxReads : DepositReaderOnerror(i)
    \/ revenueReads = <<>> /\ handleRevenueUpload
    \/ \E i \in 1..MaxReads : RevenueReaderOnload(i)
    \/ \E i \in 1..MaxReads : RevenueReaderOnerror(i)
    \/ depositPurchaseReads = <<>> /\ handleDepositPurchaseUpload
    \/ \E i \in 1..MaxReads : DepositPurchaseReaderOnload(i)
    \/ \E i \in 1..MaxReads : DepositPurchaseReaderOnerror(i)
    \/ cashinReads = <<>> /\ handleCashinUpload
    \/ \E i \in 1..MaxReads : CashinReaderOnload(i)
    \/ \E i \in 1..MaxReads : CashinReaderOnerror(i)

SpecIsolation == InitIsolation /\ [][NextIsolation]_vars

\* what a report shows: its result set, error message and loading flag
DepositShown == <<allDepositRows, error, loading>>
RevenueShown == <<revenueData, revenueError, revenueLoading>>
DepositPurchaseShown ==
    <<depositPurchaseData, depositPurchaseError, depositPurchaseLoading>>
CashinShown == <<cashinData, cashinError, cashinLoading>>

\* C16: a step of an upload of one report (its start, its onload, its onerror)
\* leaves the result set, the error message and the loading flag of each of the
\* other three reports unchanged
C16_PipelineIsolation ==
    [][/\ depositReads' # depositReads
             => UNCHANGED <<RevenueShown, DepositPurchaseShown, CashinShown>>
       /\ revenueReads' # revenueReads
             => UNCHANGED <<DepositShown, DepositPurchaseShown, CashinShown>>
       /\ depositPurchaseReads' # depositPurchaseReads
             => UNCHANGED <<DepositShown, RevenueShown, CashinShown>>
       /\ cashinReads' # cashinReads
             => UNCHANGED <<DepositShown, RevenueShown, DepositPurchaseShown>>]_vars

\* a cash-in upload has failed while a revenue result is shown, a deposit-purchase
\* read is in flight and the deposit report shows the error of an earlier upload
C16_Witness ==
    /\ cashinReads = <<>> /\ cashinError = ReadError /\ ~cashinLoading
    /\ revenueData # <<>> /\ revenueError = ""
    /\ depositPurchaseReads # <<>> /\ depositPurchaseLoading
    /\ error = ReadError /\ allDepositRows = <<>>

---------------------------------------------------------------------------
(* One upload after another: the sheet of clinic "A" is uploaded first, and the
   user turns to another file only when a result has been published *)

FirstFile == Sheet(<<RepeatRow("A", 1)>>)

InitSuccession ==
    /\ InitState
    /\ activeTab \in Tabs
    /\ pickedFile = FirstFile
    /\ depositStartDate = ""
    /\ cell = Absent /\ applied = "none" /\ result = 0

SomePublished ==
    \/ lastRows.deposit.done \/ lastRows.revenue.done
    \/ lastRows.purchase.done \/ lastRows.cashin.done

NextSuccession ==
    \/ SomePublished /\ \E file \in RepeatFiles \ {FirstFile} : PickFile(file)
    \/ depositReads = <<>> /\ handleFileUpload
    \/ \E i \in 1..MaxReads : DepositReaderOnload(i)
    \/ \E i \in 1..MaxReads : DepositReaderOnerror(i)
    \/ revenueReads = <<>> /\ handleRevenueUpload
    \/ \E i \in 1..MaxReads : RevenueReaderOnload(i)
    \/ \E i \in 1..MaxReads : RevenueReaderOnerror(i)
    \/ depositPurchaseReads = <<>> /\ handleDepositPurchaseUpload
    \/ \E i \in 1..MaxReads : DepositPurchaseReaderOnload(i)
    \/ \E i \in 1..MaxReads : DepositPurchaseReaderOnerror(i)
    \/ cashinReads = <<>> /\ handleCashinUpload
    \/ \E i \in 1..MaxReads : CashinReaderOnload(i)
    \/ \E i \in 1..MaxReads : CashinReaderOnerror(i)

SpecSuccession == InitSuccession /\ [][NextSuccession]_vars

\* every summary of a result published from rows is of a clinic of one of the
\* rows, no clinic has two summaries, and a summary's total is the sum of column
\* key over the rows of its clinic
FromRowsOnly(pub, summaries, key) ==
    /\ ~pub.done => summaries = <<>>
    /\ \A i \in 1..Len(summaries) :
          /\ \E j \in 1..Len(pub.rows) : ClinicOfRow(pub.rows[j]) = summaries[i].clinicCode
          /\ \A k \in 1..Len(summaries) :
                summaries[k].clinicCode = summaries[i].clinicCode => k = i
          /\ summaries[i].total
                = ColumnSum(pub.rows, summaries[i].clinicCode, AllItemTypes, key)

\* every stored deposit record is the record of its own row among the rows
\* published last: same clinic and as many records as rows
DepositFromRowsOnly(pub, records) ==
    /\ ~pub.done => records = <<>>
    /\ Len(records) = Len(pub.rows)
    /\ \A i \in 1..Len(records) :
          \E j \in 1..Len(pub.rows) :
              records[i].clinicCode = pub.rows[j]["Deposit Purchase Clinic Code"].s

\* C17: the result set a report shows is made of the rows of the upload published
\* last and of nothing else: no clinic, record or amount of an earlier upload of
\* the report is in it
C17_NoMerge ==
    /\ DepositFromRowsOnly(lastRows.deposit, allDepositRows)
    /\ FromRowsOnly(lastRows.revenue, revenueData, "Total Final Price")
    /\ FromRowsOnly(lastRows.purchase, depositPurchaseData, "Total Final Price")
    /\ FromRowsOnly(lastRows.cashin, cashinData, "Amount")

\* the revenue sheet of clinic "B" was published after the sheet of clinic "A":
\* the result is the one summary of clinic "B", of total 2
C17_Witness ==
    /\ lastRows.revenue = Published(<<RepeatRow("B", 2)>>)
    /\ Len(revenueData) = 1
    /\ revenueData[1].clinicCode = "B"
    /\ revenueData[1].total = NumOf(2)
    /\ revenueReads = <<>>

---------------------------------------------------------------------------
(* Overlapping uploads: the user turns to another file and uploads it to the
   report of the active tab while earlier reads are still in flight; the reads
   end in any order *)

OverlapFiles ==
    {Sheet(<<RepeatRow("A", 1)>>), Sheet(<<RepeatRow("B", 2)>>), CorruptFile, UnreadableFile}

InitOverlap ==
    /\ InitState
    /\ activeTab \in Tabs
    /\ pickedFile \in OverlapFiles
    /\ depositStartDate = ""
    /\ cell = Absent /\ applied = "none" /\ result = 0

\* at most MaxReads reads of a report in flight
NextOverlap ==
    \/ \E file \in OverlapFiles : PickFile(file)
    \/ handleFileUpload
    \/ \E i \in 1..MaxReads : DepositReaderOnload(i)
    \/ \E i \in 1..MaxReads : DepositReaderOnerror(i)
    \/ handleRevenueUpload
    \/ \E i \in 1..MaxReads : RevenueReaderOnload(i)
    \/ \E i \in 1..MaxReads : RevenueReaderOnerror(i)
    \/ handleDepositPurchaseUpload
    \/ \E i \in 1..MaxReads : DepositPurchaseReaderOnload(i)
    \/ \E i \in 1..MaxReads : DepositPurchaseReaderOnerror(i)
    \/ handleCashinUpload
    \/ \E i \in 1..MaxReads : CashinReaderOnload(i)
    \/ \E i \in 1..MaxReads : CashinReaderOnerror(i)

SpecOverlap == InitOverlap /\ [][NextOverlap]_vars

\* C18: of any one report at most one upload is in flight (its read started, its
\* callback not yet run), so no two callbacks that write the same result set
\* are pending together
C18_OneUploadInFlight ==
    /\ Len(depositReads) <= 1
    /\ Len(revenueReads) <= 1
    /\ Len(depositPurchaseReads) <= 1
    /\ Len(cashinReads) <= 1

---------------------------------------------------------------------------
(* The order of the published summaries: clinic codes that differ in case, and
   codes that are array indices, which Object.values lists first *)

OrderingRows ==
    { WithClinicCell(PricedRow(1), Str("b")),
      WithClinicCell(PricedRow(2), Str("B")),
      WithClinicCell(PricedRow(4), Str("a")),
      WithClinicCell(PricedRow(8), Str("9")),
      WithClinicCell(PricedRow(16), Str("10")),
      WithClinicCell(PricedRow(32), Str("")) }

OrderingFiles ==
    {Sheet(rows) : rows \in {r \in SeqsUpTo(OrderingRows, MaxRows) :
                                \A i, j \in 1..Len(r) : r[i] = r[j] => i = j}}
    \cup {CorruptFile, UnreadableFile}

InitOrdering ==
    /\ InitState
    /\ activeTab \in Tabs \ {"deposit-info"}
    /\ pickedFile \in OrderingFiles
    /\ depositStartDate = ""
    /\ cell = Absent /\ applied = "none" /\ result = 0

SpecOrdering == InitOrdering /\ [][NextAggregate]_vars

\* the clinic codes ascend under localeCompare, and no code is there twice
AscendingClinics(summaries) ==
    /\ \A i, j \in 1..Len(summaries) :
          i < j => localeCompare(summaries[i].clinicCode, summaries[j].clinicCode) <= 0
    /\ \A i, j \in 1..Len(summaries) :
          summaries[i].clinicCode = summaries[j].clinicCode => i = j

\* C19: the summaries each aggregating report publishes are in ascending order of
\* clinic code under localeCompare, the same comparison in the three reports, and
\* no clinic code has two summaries, whatever the order of the rows
C19_AscendingClinics ==
    /\ AscendingClinics(revenueData)
    /\ AscendingClinics(depositPurchaseData)
    /\ AscendingClinics(cashinData)

\* the rows of clinics "b", "9", "10" in this order are published as "10", "9", "b"
C19_Witness ==
    /\ lastRows.cashin.done
    /\ Len(lastRows.cashin.rows) = 3
    /\ lastRows.cashin.rows[1]["Clinic Code"] = Str("b")
    /\ lastRows.cashin.rows[2]["Clinic Code"] = Str("9")
    /\ lastRows.cashin.rows[3]["Clinic Code"] = Str("10")
    /\ Len(cashinData) = 3
    /\ cashinData[1].clinicCode = "10"
    /\ cashinData[2].clinicCode = "9"
    /\ cashinData[3].clinicCode = "b"

---------------------------------------------------------------------------
(* The revenue checksum: classified rows whose final price is the selling price
   less the discount, and rows of no class *)

\* a row of clinic and item type with the given selling price, discount and final
\* price (numbers of units of 1/128)
ChecksumRow(clinic, type, selling, discount, final) ==
    ReportRow(clinic, type, Numb(selling), Numb(selling), Numb(discount), Numb(final),
              "", Numb(0))

ChecksumRows ==
    { ChecksumRow("A", "treatment", NumOf(500), NumOf(50), NumOf(450)),
      ChecksumRow("A", "Product", NumOf(300), NumOf(20), NumOf(280)),
      \* of no class: 1/128, below 0.01
      ChecksumRow("A", "", 0, 0, 1),
      \* of no class: 5 and -5
      ChecksumRow("B", "", NumOf(9), 0, NumOf(5)),
      ChecksumRow("B", "treatment ", 0, 0, NumOf(-5)),
      \* of no class, under a clinic code that Object.prototype holds
      ChecksumRow("constructor", "", 0, 0, NumOf(7)) }

ChecksumFiles ==
    {Sheet(rows) : rows \in {r \in SeqsUpTo(ChecksumRows, MaxRows) :
                                \A i, j \in 1..Len(r) : r[i] = r[j] => i = j}}
    \cup {CorruptFile, UnreadableFile}

InitChecksum ==
    /\ InitState
    /\ activeTab = "revenue-validation"
    /\ pickedFile \in ChecksumFiles
    /\ depositStartDate = ""
    /\ cell = Absent /\ applied = "none" /\ result = 0

SpecChecksum == InitChecksum /\ [][NextRevenue]_vars

\* the row's item type is "treatment" or "product" in some letter case
Classified(row) ==
    row["Purchase Item Type"].s \in TreatmentSpellings \cup ProductSpellings

\* the sum of Total Final Price over the rows of no class
RECURSIVE UnclassifiedSum(_)
UnclassifiedSum(rows) ==
    IF rows = <<>> THEN 0
    ELSE UnclassifiedSum(Tail(rows))
         + (IF Classified(rows[1]) THEN 0 ELSE rows[1]["Total Final Price"].n)

\* every classified row has final price = selling price - discount
ClassifiedConsistent(rows) ==
    \A j \in 1..Len(rows) :
        Classified(rows[j]) =>
            rows[j]["Total Final Price"].n
               = rows[j]["Total Selling Price"].n - rows[j]["Total Discount"].n

\* C20: when every classified row of the published revenue rows has final price =
\* selling price - discount, the grand total less the checksum is the sum of the
\* final prices of the rows of no class; the validation is PASS when there is no
\* such row and FAIL when that sum is 0.01 or more in absolute value
C20_ChecksumDivergence ==
    (/\ lastRows.revenue.done /\ lastRows.revenue.rows # <<>>
     /\ ClassifiedConsistent(lastRows.revenue.rows))
    => /\ totals # NoTotals
       /\ ChecksumGap(totals) = UnclassifiedSum(lastRows.revenue.rows)
       /\ (\A j \in 1..Len(lastRows.revenue.rows) : Classified(lastRows.revenue.rows[j]))
             => Validation(totals) = "PASS"
       /\ 100 * Abs(UnclassifiedSum(lastRows.revenue.rows)) >= Unit
             => Validation(totals) = "FAIL"

---------------------------------------------------------------------------
(* The end of the deposit window (SpecWindowEnd): start dates at and around the
   ends of months, in leap and common years *)

\* calendar days <<year, month 1..12, day>>
EndDays ==
    { <<2024, 1, 15>>, <<2024, 1, 1>>, <<2024, 1, 31>>, <<2024, 6, 30>>,
      <<2024, 7, 31>>, <<2024, 11, 30>>, <<2023, 12, 29>>, <<2023, 12, 30>>,
      <<2023, 12, 31>>, <<2024, 12, 29>>, <<2024, 12, 31>>, <<1999, 12, 30>>,
      <<2099, 12, 29>>, <<2024, 2, 29>>, <<2024, 10, 31>> }

\* the text of the date input for a day: YYYY-MM-DD
InputText(day) ==
    NatToString(day[1]) \o "-" \o PadStart(NatToString(day[2]), 2, "0")
    \o "-" \o PadStart(NatToString(day[3]), 2, "0")

\* the text formatDate shows for a day: DD/MM/YYYY
DayText(day) ==
    PadStart(NatToString(day[3]), 2, "0") \o "/"
    \o PadStart(NatToString(day[2]), 2, "0") \o "/" \o NatToString(day[1])

WindowEndFiles ==
    {Sheet(rows) : rows \in SeqsUpTo(WindowRows, 1)}

InitWindowEnd ==
    /\ InitState
    /\ activeTab = "deposit-info"
    /\ pickedFile \in WindowEndFiles
    /\ depositStartDate = InputText(<<2024, 1, 15>>)
    /\ cell = Absent /\ applied = "none" /\ result = 0

NextWindowEnd ==
    \/ depositReads = <<>> /\ handleFileUpload
    \/ \E i \in 1..MaxReads : DepositReaderOnload(i)
    \/ \E day \in EndDays : setDepositStartDate(InputText(day))

SpecWindowEnd == InitWindowEnd /\ [][NextWindowEnd]_vars

\* the Gregorian calendar: days of month m (1..12) of year y
IsLeapYear(y) == y % 4 = 0 /\ (y % 100 # 0 \/ y % 400 = 0)
DaysIn(y, m) ==
    IF m = 2 THEN (IF IsLeapYear(y) THEN 29 ELSE 28)
    ELSE IF m \in {4, 6, 9, 11} THEN 30 ELSE 31

\* the month n months after month m of year y, as <<year, month>>
MonthAfter(y, m, n) == <<y + ((m - 1 + n) \div 12), ((m - 1 + n) % 12) + 1>>

\* the same day-of-month two months later, whether or not that month has such a day
SameDayTwoMonthsOn(day) ==
    <<MonthAfter(day[1], day[2], 2)[1], MonthAfter(day[1], day[2], 2)[2], day[3]>>

HasDay(day) == day[3] <= DaysIn(day[1], day[2])

\* a day-of-month past the end of its month, carried into the month after it
CarriedOver(day) ==
    <<MonthAfter(day[1], day[2], 1)[1], MonthAfter(day[1], day[2], 1)[2],
      day[3] - DaysIn(day[1], day[2])>>

\* the text of the window's end
EndText == formatDate(depositDateRange.end)

\* C21 as stated: the end is the same day-of-month two months after the start, and
\* when that month has no such day the end is still a day of that month
C21_EndWithinSecondMonth ==
    \A day \in EndDays :
        depositStartDate = InputText(day) =>
            /\ depositDateRange.k = "range"
            /\ IF HasDay(SameDayTwoMonthsOn(day))
               THEN EndText = DayText(SameDayTwoMonthsOn(day))
               ELSE SubSeq(EndText, 3, Len(EndText))
                       = SubSeq(DayText(SameDayTwoMonthsOn(day)), 3, 10)

\* C21 (amended): for every valid start date the window starts on that day and ends
\* on the same day-of-month two months later; when that month has no such day the
\* end is carried into the month after it by the days that are missing (start
\* 31 December 2023: end 2 March 2024)
C21_WindowEnd ==
    \A day \in EndDays :
        depositStartDate = InputText(day) =>
            /\ depositDateRange.k = "range"
            /\ formatDate(depositDateRange.start) = DayText(day)
            /\ EndText = IF HasDay(SameDayTwoMonthsOn(day))
                         THEN DayText(SameDayTwoMonthsOn(day))
                         ELSE DayText(CarriedOver(SameDayTwoMonthsOn(day)))

\* the window of 31 December 2023 ends on 2 March 2024, and a record expiring on
\* 15 January 2024 is displayed in it
C21_Witness ==
    /\ depositStartDate = "2023-12-31"
    /\ EndText = "02/03/2024"
    /\ \E rec \in Displayed : ExpiresOn(rec, "15/01/2024")

---------------------------------------------------------------------------
(* parseDate on its own (SpecParse): one Deposit Expiration Time cell, built of
   slash-separated parts, with and without a time after it or a space before it *)

DateParts == {"", "1", "x", "2024"}

RECURSIVE JoinParts(_, _)
JoinParts(parts, sep) ==
    IF Len(parts) = 1 THEN parts[1]
    ELSE parts[1] \o sep \o JoinParts(Tail(parts), sep)

\* one to four parts
DateTexts == {JoinParts(parts, "/") : parts \in SeqsUpTo(DateParts, 4) \ {<<>>}}

ParseCells ==
    {Str(t) : t \in DateTexts} \cup {Str(t \o " 08:00") : t \in DateTexts}
    \cup {Str(" 1/1/2024"), Str("15/02/2024 10:30:00"), Str("15/02/2024"),
          Numb(NumOf(45337)), Absent, Other}

InitParse ==
    /\ InitState
    /\ activeTab = "deposit-info"
    /\ pickedFile = NoFile
    /\ depositStartDate = ""
    /\ cell \in ParseCells /\ applied = "none" /\ result = 0

\* expirationDate: parseDate(row["Deposit Expiration Time"])
ApplyParseDate ==
    /\ applied' = "parseDate"
    /\ result' = parseDate(cell)
    /\ UNCHANGED <<cell, activeTab, pickedFile, depositStartDate, depositVars, revenueVars,
                   depositPurchaseVars, cashinVars, lastRows>>

NextParse == ApplyParseDate

SpecParse == InitParse /\ [][NextParse]_vars

\* the characters of s before its first space
RECURSIVE BeforeSpace(_)
BeforeSpace(s) ==
    IF s = "" \/ Ch(s, 1) = " " THEN ""
    ELSE Ch(s, 1) \o BeforeSpace(SubSeq(s, 2, Len(s)))

\* the number of slashes of s
RECURSIVE Slashes(_)
Slashes(s) ==
    IF s = "" THEN 0
    ELSE (IF Ch(s, 1) = "/" THEN 1 ELSE 0) + Slashes(SubSeq(s, 2, Len(s)))

\* digits and slashes only, no slash first, last or next to another slash
RECURSIVE DigitGroups(_, _)
DigitGroups(s, afterDigit) ==
    IF s = "" THEN afterDigit
    ELSE IF Ch(s, 1) = "/" THEN afterDigit /\ DigitGroups(SubSeq(s, 2, Len(s)), FALSE)
    ELSE Ch(s, 1) \in {"0", "1", "2", "3", "4", "5", "6", "7", "8", "9"}
         /\ DigitGroups(SubSeq(s, 2, Len(s)), TRUE)

\* day/month/year in digits, optionally followed by a space and a time
DayMonthYearForm(c) ==
    /\ c.k = "string"
    /\ Slashes(BeforeSpace(c.s)) = 2
    /\ DigitGroups(BeforeSpace(c.s), FALSE)

\* C22: parseDate returns a date only for a string of the form DD/MM/YYYY optionally
\* followed by a space and a time; for every other cell (not a string, the empty
\* string, fewer or more than three parts, an empty part as in "//" or "1//2024",
\* a part that is not a number, a leading space) it returns no value
C22_ParseDateShape ==
    applied = "parseDate" => (result.k = "date" <=> DayMonthYearForm(cell))

---------------------------------------------------------------------------
(* The deposit-purchase sums (SpecPurchase): rows whose four amounts occupy
   disjoint binary digits, as number cells and as text cells *)

PurchaseRows ==
    { RevenueRow("A", "treatment", 1),
      RevenueRow("A", "", 2),
      RevenueRow("B", "product", 4),
      RevenueRow("", "voucher", 8),
      ReportRow("A", "treatment", Str("0.125"), Str(" 16 "), Str("abc"), Str("2e3"),
                "", Numb(0)),
      RevenueRow("constructor", "treatment", 64) }

PurchaseFiles ==
    {Sheet(rows) : rows \in {r \in SeqsUpTo(PurchaseRows, MaxRows) :
                                \A i, j \in 1..Len(r) : r[i] = r[j] => i = j}}
    \cup {CorruptFile, UnreadableFile}

InitPurchase ==
    /\ InitState
    /\ activeTab = "deposit-purchase-validation"
    /\ pickedFile \in PurchaseFiles
    /\ depositStartDate = ""
    /\ cell = Absent /\ applied = "none" /\ result = 0

NextPurchase ==
    \/ depositPurchaseReads = <<>> /\ handleDepositPurchaseUpload
    \/ \E i \in 1..MaxReads : DepositPurchaseReaderOnload(i)
    \/ \E i \in 1..MaxReads : DepositPurchaseReaderOnerror(i)

SpecPurchase == InitPurchase /\ [][NextPurchase]_vars

\* the sum of numberFrom of column key over the rows of the clinic
RECURSIVE NumberSum(_, _, _)
NumberSum(rows, clinic, key) ==
    IF rows = <<>> THEN 0
    ELSE NumberSum(Tail(rows), clinic, key)
         + (IF ClinicOfRow(rows[1]) = clinic THEN numberFrom(rows[1], key) ELSE 0)

\* C23: for every clinic code in the published deposit-purchase result,
\* totalRetailPrice, totalSellingPrice, totalDiscount and total are the sums of
\* numberFrom of Total Retail Price, Total Selling Price, Total Discount and Total
\* Final Price over all the uploaded rows with that clinic code, whatever their item
\* type
C23_PurchaseSums ==
    lastRows.purchase.done =>
        \A i \in 1..Len(depositPurchaseData) :
            /\ depositPurchaseData[i].totalRetailPrice
                  = NumberSum(lastRows.purchase.rows, depositPurchaseData[i].clinicCode,
                              "Total Retail Price")
            /\ depositPurchaseData[i].totalSellingPrice
                  = NumberSum(lastRows.purchase.rows, depositPurchaseData[i].clinicCode,
                              "Total Selling Price")
            /\ depositPurchaseData[i].totalDiscount
                  = NumberSum(lastRows.purchase.rows, depositPurchaseData[i].clinicCode,
                              "Total Discount")
            /\ depositPurchaseData[i].total
                  = NumberSum(lastRows.purchase.rows, depositPurchaseData[i].clinicCode,
                              "Total Final Price")

\* three rows of clinic A (a treatment, a row without item type, a row of text
\* cells) published as one summary: retail 1 + 2 units and 0.125, selling
\* 128 + 256 units and 16, discount of the two number rows only, final plus 2000
C23_Witness ==
    /\ lastRows.purchase.done
    /\ Len(lastRows.purchase.rows) = 3
    /\ Len(depositPurchaseData) = 1
    /\ depositPurchaseData[1]
          = [clinicCode |-> "A", totalRetailPrice |-> 3 + 16,
             totalSellingPrice |-> 3 * 2^7 + NumOf(16), totalDiscount |-> 3 * 2^14,
             total |-> 3 * 2^21 + NumOf(2000)]

---------------------------------------------------------------------------
(* The keys of the clinic map (SpecAggregate) *)

\* the clinic codes of the rows, blank read as "Unknown"
ClinicCodesOf(rows) == {ClinicOfRow(rows[i]) : i \in 1..Len(rows)}

\* one summary for each clinic code of the rows and none for any other code
OneSummaryPerCode(pub, summaries) ==
    pub.done =>
        /\ {summaries[i].clinicCode : i \in 1..Len(summaries)} = ClinicCodesOf(pub.rows)
        /\ \A i, j \in 1..Len(summaries) :
              summaries[i].clinicCode = summaries[j].clinicCode => i = j

\* C24: in each published revenue, deposit-purchase and cash-in result every clinic
\* code that occurs in an uploaded row (blank read as "Unknown") has exactly one
\* summary and no other code has one, whatever string the clinic code is
C24_ClinicMapKeys ==
    /\ OneSummaryPerCode(lastRows.revenue, revenueData)
    /\ OneSummaryPerCode(lastRows.purchase, depositPurchaseData)
    /\ OneSummaryPerCode(lastRows.cashin, cashinData)

---------------------------------------------------------------------------
(* Two uploads of one report, both started before either completes
   (SpecTwoUploads): the user uploads a file, turns or not to another file and
   uploads again while the first read is in flight; then the two reads end, in
   either order *)

TwoUploadSheets == {Sheet(<<RepeatRow("A", 1)>>), Sheet(<<RepeatRow("B", 2)>>)}

AllReads == depositReads \o revenueReads \o depositPurchaseReads \o cashinReads

\* no upload has ended yet
NothingCompleted ==
    /\ ~lastRows.deposit.done /\ ~lastRows.revenue.done
    /\ ~lastRows.purchase.done /\ ~lastRows.cashin.done
    /\ error = "" /\ revenueError = "" /\ depositPurchaseError = "" /\ cashinError = ""

InitTwoUploads ==
    /\ InitState
    /\ activeTab \in Tabs
    /\ pickedFile \in OverlapFiles
    /\ depositStartDate = ""
    /\ cell = Absent /\ applied = "none" /\ result = 0

\* an upload is started while no upload has ended, and a read ends when both
\* uploads have been started
StartWhileReading == NothingCompleted /\ Len(AllReads) < 2
BothStarted == Len(AllReads) = 2 \/ ~NothingCompleted

NextTwoUploads ==
    \/ NothingCompleted /\ Len(AllReads) = 1 /\ \E file \in OverlapFiles : PickFile(file)
    \/ StartWhileReading /\ handleFileUpload
    \/ BothStarted /\ \E i \in 1..MaxReads : DepositReaderOnload(i)
    \/ BothStarted /\ \E i \in 1..MaxReads : DepositReaderOnerror(i)
    \/ StartWhileReading /\ handleRevenueUpload
    \/ BothStarted /\ \E i \in 1..MaxReads : RevenueReaderOnload(i)
    \/ BothStarted /\ \E i \in 1..MaxReads : RevenueReaderOnerror(i)
    \/ StartWhileReading /\ handleDepositPurchaseUpload
    \/ BothStarted /\ \E i \in 1..MaxReads : DepositPurchaseReaderOnload(i)
    \/ BothStarted /\ \E i \in 1..MaxReads : DepositPurchaseReaderOnerror(i)
    \/ StartWhileReading /\ handleCashinUpload
    \/ BothStarted /\ \E i \in 1..MaxReads : CashinReaderOnload(i)
    \/ BothStarted /\ \E i \in 1..MaxReads : CashinReaderOnerror(i)

SpecTwoUploads == InitTwoUploads /\ [][NextTwoUploads]_vars

\* the published result is the one computed from the file: the one clinic of its row
ShowsFile(pub, records, file) ==
    /\ pub = Published(file.rows)
    /\ Len(records) = 1
    /\ records[1].clinicCode = file.rows[1]["Clinic Code"].s

\* both uploads of the report have completed, and successfully: no read is in
\* flight, a result is published and no error message is set (a failure of either
\* upload leaves its message, as the second upload was started before it)
BothSucceeded(reads, pub, message) == reads = <<>> /\ pub.done /\ message = ""

\* C25: when two uploads of one report were started before either completed and
\* both have completed successfully, the published result is the one computed from
\* the file of the upload started last (the file the user turned to last),
\* whichever of the two reads ended first
C25_LastUploadWins ==
    /\ BothSucceeded(depositReads, lastRows.deposit, error)
          => ShowsFile(lastRows.deposit, allDepositRows, pickedFile)
    /\ BothSucceeded(revenueReads, lastRows.revenue, revenueError)
          => ShowsFile(lastRows.revenue, revenueData, pickedFile)
    /\ BothSucceeded(depositPurchaseReads, lastRows.purchase, depositPurchaseError)
          => ShowsFile(lastRows.purchase, depositPurchaseData, pickedFile)
    /\ BothSucceeded(cashinReads, lastRows.cashin, cashinError)
          => ShowsFile(lastRows.cashin, cashinData, pickedFile)

---------------------------------------------------------------------------
(* The loading flags (SpecOverlap) *)

\* C26: of each report the loading flag is set exactly when at least one upload of
\* the report has been started and its completion (onload, with or without a
\* processing failure, or onerror) has not yet run
C26_LoadingIffInFlight ==
    /\ loading <=> depositReads # <<>>
    /\ revenueLoading <=> revenueReads # <<>>
    /\ depositPurchaseLoading <=> depositPurchaseReads # <<>>
    /\ cashinLoading <=> cashinReads # <<>>

---------------------------------------------------------------------------
(* The error messages (SpecOverlap) *)

\* the callback of the only read in flight runs: the upload completed most
\* recently is that of file, and no upload is in flight after the step
LastCompletes(reads, readsAfter, file) == reads = <<file>> /\ readsAfter = <<>>

\* C27: whenever the last upload in flight of a report completes, the report's
\* error message is non-empty afterwards exactly when that upload failed: a
\* successful completion leaves no error message of another upload next to its
\* result set
C27_ErrorFreshness ==
    [][\A file \in OverlapFiles :
          /\ LastCompletes(depositReads, depositReads', file)
                => (error' # "" <=> FailingFile("deposit", file))
          /\ LastCompletes(revenueReads, revenueReads', file)
                => (revenueError' # "" <=> FailingFile("revenue", file))
          /\ LastCompletes(depositPurchaseReads, depositPurchaseReads', file)
                => (depositPurchaseError' # "" <=> FailingFile("purchase", file))
          /\ LastCompletes(cashinReads, cashinReads', file)
                => (cashinError' # "" <=> FailingFile("cashin", file))]_vars

---------------------------------------------------------------------------
(* Conservation of the amounts (SpecAggregate) *)

RECURSIVE FinalPriceSum(_)
FinalPriceSum(rows) ==
    IF rows = <<>> THEN 0
    ELSE numberFrom(rows[1], "Total Final Price") + FinalPriceSum(Tail(rows))

RECURSIVE AmountSum(_)
AmountSum(rows) ==
    IF rows = <<>> THEN 0 ELSE amountFrom(rows[1], "Amount") + AmountSum(Tail(rows))

\* the grand total a report shows: none when there are no totals
GrandTotal(t) == IF t = NoTotals THEN 0 ELSE t.total

\* C28: the grand total of a published revenue or deposit-purchase result is the
\* sum of numberFrom(Total Final Price) over all the uploaded rows, and that of a
\* published cash-in result the sum of amountFrom(Amount) over all the uploaded
\* rows: no row's amount is lost or counted twice, whatever its clinic code and
\* payment method
C28_Conservation ==
    /\ lastRows.revenue.done
          => GrandTotal(totals) = FinalPriceSum(lastRows.revenue.rows)
    /\ lastRows.purchase.done
          => GrandTotal(depositPurchaseTotals) = FinalPriceSum(lastRows.purchase.rows)
    /\ lastRows.cashin.done
          => GrandTotal(cashinTotals) = AmountSum(lastRows.cashin.rows)

---------------------------------------------------------------------------
(* The cash-in report on its own (SpecCashin): payment methods written as the
   program tests them, in other letter case and spacing, blank, and as a name
   that Object.prototype holds; amounts of distinct binary digits *)

CashinRow(clinic, method, amount) ==
    ReportRow(clinic, "", Numb(0), Numb(0), Numb(0), Numb(0), method, amount)

CashinRows ==
    { CashinRow("A", "Treatment Deposit", Numb(NumOf(1))),
      CashinRow("A", "treatment deposit", Numb(NumOf(2))),
      CashinRow("A", "Treatment Deposit ", Numb(NumOf(4))),
      CashinRow("A", "Clinic Voucher - Value", Numb(NumOf(8))),
      CashinRow("A", "Clinic Voucher - Treatment", Numb(NumOf(16))),
      CashinRow("A", "Clinic Voucher-Value", Numb(NumOf(32))),
      CashinRow("A", "", Numb(NumOf(64))),
      CashinRow("B", "Treatment Deposit", Str("Rp128")),
      CashinRow("A", "Cash", Numb(NumOf(-256))),
      CashinRow("A", "constructor", Numb(NumOf(512))) }

CashinFiles ==
    {Sheet(rows) : rows \in {r \in SeqsUpTo(CashinRows, MaxRows) :
                                \A i, j \in 1..Len(r) : r[i] = r[j] => i = j}}
    \cup {CorruptFile, UnreadableFile}

InitCashin ==
    /\ InitState
    /\ activeTab = "cashin-report-validation"
    /\ pickedFile \in CashinFiles
    /\ depositStartDate = ""
    /\ cell = Absent /\ applied = "none" /\ result = 0

NextCashin ==
    \/ cashinReads = <<>> /\ handleCashinUpload
    \/ \E i \in 1..MaxReads : CashinReaderOnload(i)
    \/ \E i \in 1..MaxReads : CashinReaderOnerror(i)

SpecCashin == InitCashin /\ [][NextCashin]_vars

(* The per-method totals of the cash-in report (SpecCashin) *)

\* the sum of the entries of paymentMethodTotals that are numbers
RECURSIVE EntriesSum(_)
EntriesSum(pmt) ==
    IF pmt = <<>> THEN 0
    ELSE (IF pmt[1].value.text THEN 0 ELSE pmt[1].value.n) + EntriesSum(Tail(pmt))

\* every entry is a number, the sum of the amounts of the clinic's rows with the
\* entry's payment method
EntriesAreSums(rows, clinic) ==
    \A k \in 1..Len(clinic.paymentMethodTotals) :
        /\ ~clinic.paymentMethodTotals[k].value.text
        /\ clinic.paymentMethodTotals[k].value.n
              = AmountOf(rows, clinic.clinicCode, {clinic.paymentMethodTotals[k].method})

\* C29: in every published cash-in summary each paymentMethodTotals entry is the sum
\* of the amounts of the clinic's rows with that payment method (blank read as
\* "Unknown"), and total is the sum of all the entries
C29_MethodTotals ==
    \A i \in 1..Len(cashinData) :
        /\ EntriesAreSums(lastRows.cashin.rows, cashinData[i])
        /\ cashinData[i].total = EntriesSum(cashinData[i].paymentMethodTotals)

---------------------------------------------------------------------------
(* The deposit and voucher fields of the cash-in report (SpecCashin) *)

\* the paymentMethodTotals entry of the method, 0 when there is none
EntryOf(pmt, method) ==
    IF HasMethod(pmt, method) THEN pmt[MethodIndex(pmt, method)].value.n ELSE 0

\* the amounts of the rows of the clinic are all non-negative
NonNegativeAmounts(rows, clinicCode) ==
    \A j \in 1..Len(rows) :
        ClinicOfRow(rows[j]) = clinicCode => amountFrom(rows[j], "Amount") >= 0

DepositAndVoucher(rows, clinic) ==
    /\ clinic.deposit = EntryOf(clinic.paymentMethodTotals, "Treatment Deposit")
    /\ clinic.voucher = EntryOf(clinic.paymentMethodTotals, "Clinic Voucher - Value")
                        + EntryOf(clinic.paymentMethodTotals, "Clinic Voucher - Treatment")
    /\ clinic.deposit = AmountOf(rows, clinic.clinicCode, {"Treatment Deposit"})
    /\ clinic.voucher = AmountOf(rows, clinic.clinicCode,
                                 {"Clinic Voucher - Value", "Clinic Voucher - Treatment"})
    /\ NonNegativeAmounts(rows, clinic.clinicCode)
          => 0 <= clinic.deposit + clinic.voucher
             /\ clinic.deposit + clinic.voucher <= clinic.total

\* C30: in every published cash-in summary deposit is the paymentMethodTotals entry
\* of exactly "Treatment Deposit" (0 when there is none) and voucher the sum of the
\* entries of exactly "Clinic Voucher - Value" and "Clinic Voucher - Treatment";
\* rows whose label differs in letter case or spacing count toward neither, and
\* 0 <= deposit + voucher <= total when the clinic's amounts are non-negative
C30_DepositVoucherLabels ==
    \A i \in 1..Len(cashinData) : DepositAndVoucher(lastRows.cashin.rows, cashinData[i])

\* clinic A with "Treatment Deposit" 1, "treatment deposit" 2 and "Clinic
\* Voucher-Value" 32: deposit 1, voucher 0, total 35
C30_Witness ==
    /\ lastRows.cashin.done
    /\ Len(cashinData) = 1
    /\ Len(cashinData[1].paymentMethodTotals) = 3
    /\ HasMethod(cashinData[1].paymentMethodTotals, "treatment deposit")
    /\ HasMethod(cashinData[1].paymentMethodTotals, "Clinic Voucher-Value")
    /\ cashinData[1].deposit = NumOf(1)
    /\ cashinData[1].voucher = 0
    /\ cashinData[1].total = NumOf(35)

---------------------------------------------------------------------------
(* The whole component: the user moves between the tabs, turns to a file and
   uploads it to the report of the active tab *)

\* a sheet with the columns of all four reports
FullRow ==
    [h \in DOMAIN DepositRow("n", Str("A"), Str("u"), Numb(NumOf(1)), Str("15/02/2024"))
           \cup DOMAIN ReportRow("A", "product", Numb(0), Numb(0), Numb(0), Numb(0), "Cash",
                                 Numb(0)) |->
        IF h \in DOMAIN DepositRow("n", Str("A"), Str("u"), Numb(NumOf(1)), Str("15/02/2024"))
        THEN DepositRow("n", Str("A"), Str("u"), Numb(NumOf(1)), Str("15/02/2024"))[h]
        ELSE ReportRow("A", "product", Numb(NumOf(3)), Numb(NumOf(2)), Numb(NumOf(1)),
                       Numb(NumOf(1)), "Cash", Numb(NumOf(5)))[h]]

Files == {Sheet(<<FullRow>>), UnreadableFile}

ReadsInFlight ==
    Len(depositReads) + Len(revenueReads) + Len(depositPurchaseReads) + Len(cashinReads)

Init ==
    /\ InitState
    /\ activeTab = "deposit-info"
    /\ pickedFile = NoFile
    /\ depositStartDate = toDateInputValue(DateOf(DayNumber(2024, 1, 15)))
    /\ cell = Absent /\ applied = "none" /\ result = 0

\* one upload at a time: the next is started when the read before it has ended
Next ==
    \/ \E id \in Tabs : setActiveTab(id)
    \/ \E file \in Files : PickFile(file)
    \/ setDepositStartDate("")
    \/ ReadsInFlight = 0 /\ handleFileUpload
    \/ \E i \in 1..MaxReads : DepositReaderOnload(i)
    \/ \E i \in 1..MaxReads : DepositReaderOnerror(i)
    \/ ReadsInFlight = 0 /\ handleRevenueUpload
    \/ \E i \in 1..MaxReads : RevenueReaderOnload(i)
    \/ \E i \in 1..MaxReads : RevenueReaderOnerror(i)
    \/ ReadsInFlight = 0 /\ handleDepositPurchaseUpload
    \/ \E i \in 1..MaxReads : DepositPurchaseReaderOnload(i)
    \/ \E i \in 1..MaxReads : DepositPurchaseReaderOnerror(i)
    \/ ReadsInFlight = 0 /\ handleCashinUpload
    \/ \E i \in 1..MaxReads : CashinReaderOnload(i)
    \/ \E i \in 1..MaxReads : CashinReaderOnerror(i)

Spec == Init /\ [][Next]_vars

=============================================================================
